---- MODULE Spec2Model ----
(***************************************************************************)
(* State-machine model of the zakariyyo-bot order-intake bot:              *)
(*   - the /tasdiq (order confirmation) wizard of app/handlers/confirm.py, *)
(*     one action per handler, driven per chat over context.user_data;     *)
(*   - the confirms table of app/db.py and its operations;                 *)
(*   - the external collaborators (MoySklad, Telegram, the tmp directory)  *)
(*     as nondeterministic inputs and as logs of the calls issued.         *)
(*                                                                         *)
(* Text is a sequence of one-character tokens (<<"a", "-", "9">>); the     *)
(* tokens "cyr_ha"/"CYR_HA" stand for the Cyrillic letter ha and "mul" for *)
(* the multiplication sign.  None, "" and {} of the Python code are the    *)
(* value 0 (quantity, metas, paths) or the empty sequence (text, price).    *)
(***************************************************************************)
EXTENDS Integers, Sequences, FiniteSets, TLC

(* ------------------------------ bounds --------------------------------- *)
MaxRows == 1
MaxPhotos == 2
MaxTable == 2

(* ------------------------------- text ---------------------------------- *)
Digits == {"0", "1", "2", "3", "4", "5", "6", "7", "8", "9"}
LowerSeq == <<"a", "b", "c", "d", "e", "f", "g", "h", "i", "j", "k", "l", "m",
              "n", "o", "p", "q", "r", "s", "t", "u", "v", "w", "x", "y", "z",
              "cyr_ha">>
UpperSeq == <<"A", "B", "C", "D", "E", "F", "G", "H", "I", "J", "K", "L", "M",
              "N", "O", "P", "Q", "R", "S", "T", "U", "V", "W", "X", "Y", "Z",
              "CYR_HA">>
CyrLowerOnly == {"cyr_sha", "cyr_te", "cyr_ka", "cyr_ge", "cyr_er", "cyr_u",
                 "cyr_el", "cyr_o", "cyr_en", "cyr_a", "cyr_i", "cyr_em"}
Range(f) == {f[i] : i \in DOMAIN f}
Letters == Range(LowerSeq) \cup Range(UpperSeq) \cup CyrLowerOnly
Spaces == {" "}

DigitVal(ch) ==
    CASE ch = "0" -> 0 [] ch = "1" -> 1 [] ch = "2" -> 2 [] ch = "3" -> 3
      [] ch = "4" -> 4 [] ch = "5" -> 5 [] ch = "6" -> 6 [] ch = "7" -> 7
      [] ch = "8" -> 8 [] ch = "9" -> 9

LowerCh(ch) ==
    IF ch \in Range(UpperSeq)
    THEN LowerSeq[CHOOSE i \in DOMAIN UpperSeq : UpperSeq[i] = ch] ELSE ch

UpperCh(ch) ==
    IF ch \in Range(LowerSeq)
    THEN UpperSeq[CHOOSE i \in DOMAIN LowerSeq : LowerSeq[i] = ch] ELSE ch

Lower(s) == [i \in 1..Len(s) |-> LowerCh(s[i])]
Upper(s) == [i \in 1..Len(s) |-> UpperCh(s[i])]

RECURSIVE LStrip(_)
LStrip(s) == IF s # <<>> /\ Head(s) \in Spaces THEN LStrip(Tail(s)) ELSE s

RECURSIVE RStrip(_)
RStrip(s) ==
    IF s # <<>> /\ s[Len(s)] \in Spaces THEN RStrip(SubSeq(s, 1, Len(s) - 1)) ELSE s

Strip(s) == RStrip(LStrip(s))

_digits_only(s) == SelectSeq(s, LAMBDA ch : ch \in Digits)

RECURSIVE ToInt(_)
ToInt(ds) ==
    IF ds = <<>> THEN 0
    ELSE 10 * ToInt(SubSeq(ds, 1, Len(ds) - 1)) + DigitVal(ds[Len(ds)])

\* whole numbers beyond the 32-bit range are kept as digit sequences without
\* leading zeros (<<>> is 0)
RECURSIVE NumNorm(_)
NumNorm(ds) == IF ds # <<>> /\ Head(ds) = "0" THEN NumNorm(Tail(ds)) ELSE ds

NumLess(a, b) ==
    \/ Len(a) < Len(b)
    \/ /\ Len(a) = Len(b)
       /\ \E i \in 1..Len(a) : /\ SubSeq(a, 1, i - 1) = SubSeq(b, 1, i - 1)
                               /\ DigitVal(a[i]) < DigitVal(b[i])

StartsWith(s, p) == Len(s) >= Len(p) /\ SubSeq(s, 1, Len(p)) = p
LastN(s, n) == SubSeq(s, Len(s) - n + 1, Len(s))
Contains(s, ch) == \E i \in 1..Len(s) : s[i] = ch

(* ---------------------------- validators ------------------------------- *)
\* "+" before the digits whatever their number
phone_plus_digits(phone_raw) ==
    LET digits == SelectSeq(phone_raw, LAMBDA ch : ch \in Digits) IN
    IF digits = <<>> THEN <<>> ELSE <<"+">> \o digits

_normalize_phone_uz(phone_raw) ==
    LET digits == _digits_only(phone_raw) IN
    IF digits = <<>> THEN <<>>
    ELSE IF Len(digits) = 9 THEN <<"+", "9", "9", "8">> \o digits
    ELSE IF Len(digits) = 12 /\ StartsWith(digits, <<"9", "9", "8">>) THEN <<"+">> \o digits
    ELSE IF Len(digits) > 12 THEN <<"+", "9", "9", "8">> \o LastN(digits, 9)
    ELSE IF 9 < Len(digits) /\ Len(digits) < 12 THEN <<"+", "9", "9", "8">> \o LastN(digits, 9)
    ELSE <<"+">> \o digits

\* index of the first "-" of s at or after position i, 0 when there is none
RECURSIVE DashFrom(_, _)
DashFrom(s, i) ==
    IF i > Len(s) THEN 0 ELSE IF s[i] = "-" THEN i ELSE DashFrom(s, i + 1)

\* text.split("-", maxsplit=2)
SplitDash2(s) ==
    LET d1 == DashFrom(s, 1) IN
    IF d1 = 0 THEN <<s>>
    ELSE LET d2 == DashFrom(s, d1 + 1) IN
         IF d2 = 0 THEN <<SubSeq(s, 1, d1 - 1), SubSeq(s, d1 + 1, Len(s))>>
         ELSE <<SubSeq(s, 1, d1 - 1), SubSeq(s, d1 + 1, d2 - 1), SubSeq(s, d2 + 1, Len(s))>>

NoTriple == [ok |-> FALSE, brand |-> <<>>, client |-> <<>>, phone_plus |-> <<>>]

_parse_brand_client_phone(text) ==
    LET raw == SplitDash2(Strip(text))
        parts == [i \in 1..Len(raw) |-> Strip(raw[i])]
    IN  IF Len(parts) # 3 THEN NoTriple
        ELSE LET brand == Upper(Strip(parts[1]))
                 client == Strip(parts[2])
                 phone_plus == _normalize_phone_uz(parts[3])
             IN  IF brand = <<>> \/ client = <<>> \/ phone_plus = <<>> THEN NoTriple
                 ELSE [ok |-> TRUE, brand |-> brand, client |-> client,
                       phone_plus |-> phone_plus]

\* length of the longest prefix of s made of digits and spaces
RECURSIVE NumPrefix(_, _)
NumPrefix(s, i) ==
    IF i <= Len(s) /\ s[i] \in (Digits \cup Spaces) THEN NumPrefix(s, i + 1) ELSE i - 1

U_sht == <<"s", "h", "t">>
U_sh == <<"s", "h">>
U_rulon == <<"r", "u", "l", "o", "n">>
U_rul == <<"r", "u", "l">>
U_kg == <<"k", "g">>
U_ru_sht == <<"cyr_sha", "cyr_te">>
U_ru_rulon == <<"cyr_er", "cyr_u", "cyr_el", "cyr_o", "cyr_en">>
U_ru_kg == <<"cyr_ka", "cyr_ge">>

\* qty = -1 stands for None
QtyNone == [qty |-> -1, unit_lat |-> <<>>, unit_ru |-> <<>>]

_parse_qty_and_unit(text) ==
    LET t == Lower(Strip(text)) IN
    IF t = <<>> THEN QtyNone
    ELSE LET n == NumPrefix(t, 1)
             rest == SubSeq(t, n + 1, Len(t))
             m == /\ t[1] \in Digits
                  /\ \A i \in 1..Len(rest) : rest[i] \in Letters
         IN  IF ~m THEN
                 LET d == _digits_only(t) IN
                 IF d # <<>> THEN [qty |-> ToInt(d), unit_lat |-> <<>>, unit_ru |-> <<>>]
                 ELSE QtyNone
             ELSE
                 LET num == _digits_only(SubSeq(t, 1, n))
                     unit == Lower(Strip(rest))
                     qty == ToInt(num)
                 IN  IF num = <<>> THEN QtyNone
                     ELSE IF unit \in {U_sht, U_sh, U_ru_sht} THEN
                         [qty |-> qty, unit_lat |-> U_sht, unit_ru |-> U_ru_sht]
                     ELSE IF unit \in {U_rulon, U_ru_rulon, U_rul} THEN
                         [qty |-> qty, unit_lat |-> U_rulon, unit_ru |-> U_ru_rulon]
                     ELSE IF unit \in {U_kg, U_ru_kg} THEN
                         [qty |-> qty, unit_lat |-> U_kg, unit_ru |-> U_ru_kg]
                     ELSE [qty |-> qty, unit_lat |-> unit, unit_ru |-> unit]

\* the replacements without lower()
size_keep_case(text) ==
    LET rep == [i \in 1..Len(text) |->
                   IF text[i] \in {"cyr_ha", "*"} THEN "x" ELSE text[i]]
    IN  SelectSeq(rep, LAMBDA ch : ch # " ")

\* text.lower().replace(cyrillic ha, "x").replace("*", "x").replace(" ", "")
NormSize(text) ==
    LET low == Lower(Strip(text))
        rep == [i \in 1..Len(low) |->
                   IF low[i] \in {"cyr_ha", "*"} THEN "x" ELSE low[i]]
    IN  SelectSeq(rep, LAMBDA ch : ch # " ")

(* ------------------------------- state --------------------------------- *)
Chats == {1}
\* the chats of the specification of several chats: chat 1 is the private
\* chat of user 1, chat 2 a group in which user 1 writes as well, chat 3 a
\* chat of user 2
ManyChats == {1, 2, 3}
\* the user whose updates arrive in chat c. A ConversationHandler keeps its
\* state per (chat id, user id), context.user_data is kept per user id
user_of(c) == IF c = 3 THEN 2 ELSE 1
Operators == {1, 2}
Channels == {1, 2}
Times == {1, 2}
Counterparties == {1}

VARIABLES
    conv,       \* conv[c]: state of the /tasdiq ConversationHandler in chat c
    ud,         \* ud[c]: context.user_data of the user who writes in chat c
    out,        \* out[c]: what the last handled update of chat c emitted
    kb,         \* kb[c]: callback buttons sent to chat c so far: the record ids
                \* of the cfpick buttons, and whether cfscforce buttons exist
    msg_id,     \* msg_id[c]: message_id of the last photo message of chat c
    confirms,   \* the confirms table, row id = index
    files,      \* image files that exist under storage/tmp
    env,        \* configuration read by app/config.py
    tx,         \* tx[p]: the db.py call of caller p: the function, its
                \* arguments, the row its SELECT found, the value returned
    order,      \* order[c]: the /kiritish conversation of chat c: its state, the
                \* keys of context.user_data its handlers write, and what the
                \* last update it handled emitted
    pure,       \* a call of one of the validators: the function, its argument,
                \* whether it has returned, the value returned
    auth        \* auth[c]: the /login conversation of chat c: its state and the
                \* log_phone key of context.user_data

vars == <<conv, ud, out, kb, msg_id, confirms, files, env, tx, order, pure, auth>>

END == "END"

\* no login going on
NoAuth == [state |-> END, log_phone |-> <<>>]

\* no validator called on its own
NoPure == [fn |-> "", arg |-> <<>>, done |-> FALSE, res |-> <<>>]

\* callers of app/db.py
Procs == {1, 2}

\* no db.py call made yet
NoCall == [pc |-> "idle", call |-> "", args |-> 0, row |-> 0, ret |-> 0]

\* keys of context.user_data written by the /tasdiq handlers
ConfirmKeys == {"confirm_id", "confirm_data", "cf_channels_map", "cf_groups_all",
                "edit_key", "cf_cp_map", "cf_brand_only", "confirm_batch"}

ItemKeys == {"item_type", "size", "bg_color", "text_color", "qm_note",
             "qty", "qty_unit_lat", "qty_unit_ru", "price_uzs",
             "sales_channel_meta", "sales_channel_name",
             "group_meta", "group_name", "image_path"}

\* the dict of item fields as _reset_item_fields_keep_cp_brand leaves it
EmptyItem ==
    [image_path |-> 0, item_type |-> <<>>, size |-> <<>>, bg_color |-> <<>>,
     text_color |-> <<>>, qm_note |-> <<>>, qty |-> 0, qty_unit_lat |-> <<>>,
     qty_unit_ru |-> <<>>, price_uzs |-> <<>>, sales_channel_meta |-> 0,
     sales_channel_name |-> 0, group_meta |-> 0, group_name |-> 0]

\* a fresh confirm_data dict for (brand, client, phone, counterparty)
NewData(brand, client, phone, cp) ==
    [k \in ItemKeys \cup {"brand", "client_name", "phone_plus", "counterparty_meta",
                         "moment_iso_override"} |->
        CASE k = "brand" -> brand
          [] k = "client_name" -> client
          [] k = "phone_plus" -> phone
          [] k = "counterparty_meta" -> cp
          [] k = "moment_iso_override" -> 0
          [] OTHER -> EmptyItem[k]]

\* the defaults _ensure_confirm_data fills in
DefaultData == NewData(<<>>, <<>>, <<>>, 0)

NoUserData ==
    [operator |-> 0, keys |-> {}, confirm_id |-> 0, confirm_data |-> DefaultData,
     confirm_batch |-> <<>>, edit_key |-> "", cf_brand_only |-> FALSE,
     cf_cp_map |-> {}, cf_channels_map |-> {}, cf_groups_all |-> <<>>]

\* no exception raised by an external call
NoFail == [at |-> -1, call |-> ""]

\* what one handled update emitted: the handler that ran, the branch it
\* took, the id carried by the button pressed, the messages it showed,
\* the external calls it issued, and the call made to fail in it
NoOut == [handler |-> "", input |-> "", arg |-> 0, reply |-> <<>>, calls |-> <<>>,
          fault |-> NoFail]

\* a pop that drops the batch along with the keys named
pop_with_batch(u, ks) ==
    [u EXCEPT !.keys = @ \ (ks \cup {"confirm_batch"}),
              !.confirm_id = IF "confirm_id" \in ks THEN 0 ELSE @,
              !.confirm_data = IF "confirm_data" \in ks THEN DefaultData ELSE @,
              !.confirm_batch = <<>>,
              !.edit_key = IF "edit_key" \in ks THEN "" ELSE @,
              !.cf_brand_only = IF "cf_brand_only" \in ks THEN FALSE ELSE @,
              !.cf_cp_map = IF "cf_cp_map" \in ks THEN {} ELSE @,
              !.cf_channels_map = IF "cf_channels_map" \in ks THEN {} ELSE @,
              !.cf_groups_all = IF "cf_groups_all" \in ks THEN <<>> ELSE @]

\* context.user_data.pop(k, None) for every k of ks
Pop(u, ks) ==
    [u EXCEPT !.keys = @ \ ks,
              !.confirm_id = IF "confirm_id" \in ks THEN 0 ELSE @,
              !.confirm_data = IF "confirm_data" \in ks THEN DefaultData ELSE @,
              !.confirm_batch = IF "confirm_batch" \in ks THEN <<>> ELSE @,
              !.edit_key = IF "edit_key" \in ks THEN "" ELSE @,
              !.cf_brand_only = IF "cf_brand_only" \in ks THEN FALSE ELSE @,
              !.cf_cp_map = IF "cf_cp_map" \in ks THEN {} ELSE @,
              !.cf_channels_map = IF "cf_channels_map" \in ks THEN {} ELSE @,
              !.cf_groups_all = IF "cf_groups_all" \in ks THEN <<>> ELSE @]

\* context.user_data["confirm_data"] = d
PutData(u, d) == [u EXCEPT !.keys = @ \cup {"confirm_data"}, !.confirm_data = d]

_ensure_confirm_data(u) == PutData(u, u.confirm_data)

\* the /kiritish conversation before /kiritish was sent: amount 0 and
\* date, time <<>> stand for None, cp 0 for a dict without meta
NoOrder ==
    [state |-> END,
     u |-> [keys |-> {}, paytype |-> "", cp |-> 0, cp_candidates |-> {}, amount_uzs |-> 0,
            date_iso |-> <<>>, time_hms |-> <<>>, check_path |-> 0, channels_map |-> {},
            sales_channel_meta |-> 0, edit_target |-> ""],
     out |-> NoOut]

Init ==
    /\ conv = [c \in Chats |-> END]
    /\ ud = [c \in Chats |-> [NoUserData EXCEPT !.operator = 1]]
    /\ out = [c \in Chats |-> NoOut]
    /\ kb = [c \in Chats |-> [cfpick |-> {}, cfscforce |-> FALSE]]
    /\ msg_id = [c \in Chats |-> 0]
    /\ confirms = <<>>
    /\ files = {}
    /\ env \in [CONFIRM_CHAT_ID : {0, 1}, GROUP_CHAT_ID : {0}]
    /\ tx = [p \in Procs |-> NoCall]
    /\ order = [c \in Chats |-> NoOrder]
    /\ pure = NoPure
    /\ auth = [c \in Chats |-> NoAuth]

(* ------------------------------ app/db.py ------------------------------ *)
Row(op, brand, client, phone, cp) ==
    [operator_id |-> op, brand |-> brand, client_name |-> client,
     phone_plus |-> phone, counterparty_meta |-> cp, status |-> "OPEN"]

\* an insert that writes over the OPEN row of the same operator, brand and
\* phone when there is one
create_confirm_keyed(tbl, op, brand, client, phone, cp) ==
    LET same == {i \in 1..Len(tbl) :
                    /\ tbl[i].operator_id = op /\ tbl[i].status = "OPEN"
                    /\ tbl[i].brand = Strip(brand) /\ tbl[i].phone_plus = Strip(phone)}
    IN  IF same = {}
        THEN Append(tbl, Row(op, Strip(brand), Strip(client), Strip(phone), cp))
        ELSE [i \in 1..Len(tbl) |->
                 IF i \in same
                 THEN [tbl[i] EXCEPT !.client_name = Strip(client), !.counterparty_meta = cp]
                 ELSE tbl[i]]

\* INSERT of one OPEN row; the new id is the next AUTOINCREMENT value
create_confirm(tbl, op, brand, client, phone, cp) ==
    Append(tbl, Row(op, Strip(brand), Strip(client), Strip(phone), cp))

\* ids of the rows SELECTed by list_open_confirms
list_open_confirms(tbl, op) ==
    {i \in 1..Len(tbl) : tbl[i].operator_id = op /\ tbl[i].status = "OPEN"}

\* a SELECT whose WHERE clause names the id only
get_any_operator(tbl, op, cid) == IF cid \in 1..Len(tbl) THEN cid ELSE 0

\* id of the row SELECTed by get_confirm, 0 when there is none
get_confirm(tbl, op, cid) ==
    IF cid \in 1..Len(tbl) /\ tbl[cid].operator_id = op THEN cid ELSE 0

\* an UPDATE whose WHERE clause names the id only
mark_any_operator(tbl, op, cid) ==
    IF cid \in 1..Len(tbl) THEN [tbl EXCEPT ![cid].status = "DONE"] ELSE tbl

MarkChanges(tbl, op, cid) ==
    cid \in 1..Len(tbl) /\ tbl[cid].operator_id = op /\ tbl[cid].status = "OPEN"

\* UPDATE ... SET status='DONE' WHERE operator_id=? AND id=? AND status='OPEN'
mark_confirm_done(tbl, op, cid) ==
    IF MarkChanges(tbl, op, cid) THEN [tbl EXCEPT ![cid].status = "DONE"] ELSE tbl

(* ------------------- app/db.py: create_confirm_upsert ------------------ *)
UpsertOperators == {0, 1}
UpsertBrands == {<<"a">>, <<"A", " ">>, <<" ">>}
UpsertClients == {<<"x">>, <<"y", " ">>}
UpsertPhones == {<<"9">>}

UpsertArgs ==
    [operator_id : UpsertOperators, brand : UpsertBrands, client_name : UpsertClients,
     phone_plus : UpsertPhones, counterparty_meta : Counterparties]

\* upper() of SQLite folds the ASCII letters only
sql_upper(s) == [i \in 1..Len(s) |-> IF s[i] = "cyr_ha" THEN s[i] ELSE UpperCh(s[i])]

\* op_id, brand_key, phone_key, client_clean of create_confirm_upsert
UpsertKey(a) ==
    [op_id |-> a.operator_id, brand_key |-> Upper(Strip(a.brand)),
     phone_key |-> Strip(a.phone_plus), client_clean |-> Strip(a.client_name)]

\* if not op_id or not brand_key or not phone_key
UpsertFallback(k) == k.op_id = 0 \/ k.brand_key = <<>> \/ k.phone_key = <<>>

\* SELECT id ... WHERE operator_id=? AND status='OPEN' AND upper(trim(brand))=?
\* AND trim(phone_plus)=? ORDER BY id DESC LIMIT 1; 0 when no row is found
UpsertSelect(tbl, k) ==
    LET found == {i \in 1..Len(tbl) :
                     /\ tbl[i].operator_id = k.op_id
                     /\ tbl[i].status = "OPEN"
                     /\ sql_upper(Strip(tbl[i].brand)) = k.brand_key
                     /\ Strip(tbl[i].phone_plus) = k.phone_key}
    IN  IF found = {} THEN 0 ELSE CHOOSE i \in found : \A j \in found : j <= i

\* an UPDATE whose WHERE clause leaves the status out
update_any_status(tbl, k, a, id) ==
    IF id \in 1..Len(tbl) /\ tbl[id].operator_id = k.op_id
    THEN [tbl EXCEPT ![id].client_name = k.client_clean,
                     ![id].counterparty_meta = a.counterparty_meta]
    ELSE tbl

\* UPDATE confirms SET client_name=?, counterparty_meta=?
\* WHERE operator_id=? AND id=? AND status='OPEN'
UpsertUpdate(tbl, k, a, id) ==
    IF id \in 1..Len(tbl) /\ tbl[id].operator_id = k.op_id /\ tbl[id].status = "OPEN"
    THEN [tbl EXCEPT ![id].client_name = k.client_clean,
                     ![id].counterparty_meta = a.counterparty_meta]
    ELSE tbl

\* the statement that follows the SELECT: the UPDATE of the row found, else
\* the INSERT of create_confirm on a connection of its own
UpsertWrite(tbl, a, row) ==
    LET k == UpsertKey(a) IN
    IF row # 0
    THEN [tbl |-> UpsertUpdate(tbl, k, a, row), ret |-> row]
    ELSE [tbl |-> create_confirm(tbl, k.op_id, k.brand_key, k.client_clean, k.phone_key,
                                 a.counterparty_meta),
          ret |-> Len(tbl) + 1]

\* the plain INSERT taken for a blank operator, brand or phone
UpsertPlain(tbl, a) ==
    [tbl |-> create_confirm(tbl, a.operator_id, a.brand, a.client_name, a.phone_plus,
                            a.counterparty_meta),
     ret |-> Len(tbl) + 1]

\* one whole call, run with no other statement in between
create_confirm_upsert(tbl, a) ==
    IF UpsertFallback(UpsertKey(a)) THEN UpsertPlain(tbl, a)
    ELSE UpsertWrite(tbl, a, UpsertSelect(tbl, UpsertKey(a)))

Called(p, name, a, row, ret) ==
    tx' = [tx EXCEPT ![p] = [pc |-> "idle", call |-> name, args |-> a, row |-> row,
                             ret |-> ret]]

\* a caller runs create_confirm_upsert from its first to its last statement
upsert_call ==
    /\ UNCHANGED <<conv, ud, out, kb, msg_id, files, env, order, pure, auth>>
    /\ \E a \in UpsertArgs :
        LET r == create_confirm_upsert(confirms, a) IN
        /\ Len(r.tbl) <= MaxTable
        /\ confirms' = r.tbl
        /\ Called(1, "create_confirm_upsert", a, UpsertSelect(confirms, UpsertKey(a)), r.ret)

\* a caller runs mark_confirm_done; ret is 1 when a row changed
mark_done_call ==
    /\ tx[1].pc = "idle"
    /\ UNCHANGED <<conv, ud, out, kb, msg_id, files, env, order, pure, auth>>
    /\ \E op \in UpsertOperators, cid \in 1..MaxTable :
        /\ confirms' = mark_confirm_done(confirms, op, cid)
        /\ Called(1, "mark_confirm_done", [operator_id |-> op, confirm_id |-> cid], 0,
                  IF MarkChanges(confirms, op, cid) THEN 1 ELSE 0)

NextUpsert == upsert_call \/ mark_done_call

\* any sequence of create_confirm_upsert and mark_confirm_done calls
SpecUpsert == Init /\ [][NextUpsert]_vars

\* the arguments of the concurrent calls: operator, brand and phone given
UpsertKeyedArgs == {a \in UpsertArgs : ~UpsertFallback(UpsertKey(a))}

\* caller p enters create_confirm_upsert and runs its SELECT
upsert_select(p) ==
    /\ tx[p].pc = "idle"
    /\ UNCHANGED <<conv, ud, out, kb, msg_id, confirms, files, env, order, pure, auth>>
    /\ \E a \in UpsertKeyedArgs :
        tx' = [tx EXCEPT ![p] = [pc |-> "selected", call |-> "create_confirm_upsert",
                                 args |-> a, row |-> UpsertSelect(confirms, UpsertKey(a)),
                                 ret |-> 0]]

\* caller p runs the statement after its SELECT and returns
upsert_write(p) ==
    /\ tx[p].pc = "selected"
    /\ UNCHANGED <<conv, ud, out, kb, msg_id, files, env, order, pure, auth>>
    /\ LET r == UpsertWrite(confirms, tx[p].args, tx[p].row) IN
       /\ Len(r.tbl) <= MaxTable
       /\ confirms' = r.tbl
       /\ tx' = [tx EXCEPT ![p].pc = "idle", ![p].ret = r.ret]

NextUpsertRace == \E p \in Procs : upsert_select(p) \/ upsert_write(p)

\* two callers of create_confirm_upsert, interleaved statement by statement
SpecUpsertRace == Init /\ [][NextUpsertRace]_vars

NextStore == NextUpsertRace \/ mark_done_call

\* the store under concurrent callers: the statements of create_confirm_upsert
\* interleaved with each other and with mark_confirm_done
SpecStore == Init /\ [][NextStore]_vars

(* ------------------------- external directory -------------------------- *)
\* counterparties as MoySklad returns them: name and phone as stored there
CpName(cp) == <<"k", " ", "a", "l", "i">>
CpPhone(cp) == <<"9", "0", " ", "1">>

\* index of the first " " of s, 0 when there is none
RECURSIVE SpaceFrom(_, _)
SpaceFrom(s, i) ==
    IF i > Len(s) THEN 0 ELSE IF s[i] = " " THEN i ELSE SpaceFrom(s, i + 1)

_infer_brand_client_from_cp_name(cp_name) ==
    LET s == Strip(cp_name)
        sp == SpaceFrom(s, 1)
    IN  IF s = <<>> THEN [brand |-> <<>>, client |-> <<>>]
        ELSE IF sp = 0 THEN [brand |-> Upper(Strip(s)), client |-> <<>>]
        ELSE [brand |-> Upper(Strip(SubSeq(s, 1, sp - 1))),
              client |-> Strip(SubSeq(s, sp + 1, Len(s)))]

(* ------------------------------ inputs --------------------------------- *)
FormatTexts == {<<"a", "-", "b", "-", "9">>, <<" ">>}
SearchTexts == {<<>>, <<"a">>}
SearchResults == {{}, {1}}

(* ------------------------- /tasdiq: entry ------------------------------ *)
Msg(h, in, msgs) == [NoOut EXCEPT !.handler = h, !.input = in, !.reply = msgs]

Turn(c, state, u, o) ==
    /\ conv' = [conv EXCEPT ![c] = state]
    /\ ud' = [k \in DOMAIN ud |-> IF user_of(k) = user_of(c) THEN u ELSE ud[k]]
    /\ out' = [out EXCEPT ![c] = o]

\* /tasdiq is an entry point with allow_reentry: it is accepted in any state
tasdiq_start(c) ==
    /\ UNCHANGED <<msg_id, confirms, files, env, tx, order, pure, auth>>
    /\ IF ud[c].operator = 0
       THEN /\ Turn(c, END, ud[c], Msg("tasdiq_start", "", <<"err_login">>))
            /\ UNCHANGED kb
       ELSE /\ kb' = [kb EXCEPT ![c].cfpick =
                                 @ \cup list_open_confirms(confirms, ud[c].operator)]
            /\ Turn(c, "CF_PICK", ud[c], Msg("tasdiq_start", "", <<"pick_list">>))

on_new_confirm_click(c) ==
    /\ conv[c] = "CF_PICK"
    /\ UNCHANGED <<kb, msg_id, confirms, files, env, tx, order, pure, auth>>
    /\ \E mode \in {"search", "format"} :
          IF mode = "search"
          THEN Turn(c, "CF_CP_SEARCH", ud[c], Msg("on_new_confirm_click", mode, <<"ask_search">>))
          ELSE Turn(c, "CF_NEW_CLICK", ud[c], Msg("on_new_confirm_click", mode, <<"ask_format">>))

on_cp_search_text(c) ==
    /\ conv[c] = "CF_CP_SEARCH"
    /\ UNCHANGED <<kb, msg_id, confirms, files, env, tx, order, pure, auth>>
    /\ \E qtxt \in SearchTexts, raised \in BOOLEAN, rows \in SearchResults :
          IF ud[c].operator = 0
          THEN Turn(c, END, ud[c], Msg("on_cp_search_text", "", <<"err_login">>))
          ELSE IF Strip(qtxt) = <<>>
          THEN Turn(c, "CF_CP_SEARCH", ud[c], Msg("on_cp_search_text", "empty", <<"err_empty">>))
          ELSE IF raised
          THEN Turn(c, "CF_CP_SEARCH", ud[c], Msg("on_cp_search_text", "raised", <<"err_search">>))
          ELSE IF rows = {}
          THEN Turn(c, "CF_CP_SEARCH", ud[c], Msg("on_cp_search_text", "none", <<"err_not_found">>))
          ELSE Turn(c, "CF_CP_PICK",
                    [ud[c] EXCEPT !.keys = @ \cup {"cf_cp_map"}, !.cf_cp_map = rows],
                    Msg("on_cp_search_text", "found", <<"cp_list">>))

on_cp_pick(c) ==
    /\ conv[c] = "CF_CP_PICK"
    /\ UNCHANGED <<kb, msg_id, confirms, files, env, tx, order, pure, auth>>
    /\ \/ Turn(c, "CF_NEW_CLICK", ud[c], Msg("on_cp_pick", "new", <<"ask_format">>))
       \/ \E cid \in Counterparties :
             IF cid \notin ud[c].cf_cp_map
             THEN Turn(c, "CF_CP_SEARCH", ud[c], Msg("on_cp_pick", "missing", <<"err_not_found">>))
             ELSE Turn(c, "CF_BRAND_ONLY",
                       [PutData(ud[c], NewData(<<>>, Strip(CpName(cid)),
                                               _normalize_phone_uz(CpPhone(cid)), cid))
                           EXCEPT !.keys = @ \cup {"confirm_data", "cf_brand_only"},
                                  !.cf_brand_only = TRUE],
                       Msg("on_cp_pick", "picked", <<"ask_brand">>))

\* serves CF_BRAND_ONLY and CF_NEW_CLICK; cp is what get_or_create_counterparty
\* returns (0: without meta)
on_new_confirm_cp(c) ==
    /\ conv[c] \in {"CF_NEW_CLICK", "CF_BRAND_ONLY"}
    /\ UNCHANGED <<kb, msg_id, files, env, tx, order, pure, auth>>
    /\ \E text \in FormatTexts, cp \in Counterparties \cup {0} :
        LET op_id == ud[c].operator IN
        IF op_id = 0
        THEN /\ Turn(c, END, ud[c], Msg("on_new_confirm_cp", "", <<"err_login">>))
             /\ UNCHANGED confirms
        ELSE IF ud[c].cf_brand_only
        THEN LET brand == Upper(Strip(text))
                 u1 == _ensure_confirm_data(ud[c])
                 d == [u1.confirm_data EXCEPT !.brand = brand]
             IN  IF brand = <<>>
                 THEN /\ Turn(c, "CF_BRAND_ONLY", ud[c],
                              Msg("on_new_confirm_cp", "brand_empty", <<"err_brand">>))
                      /\ UNCHANGED confirms
                 ELSE IF d.counterparty_meta = 0
                 THEN /\ Turn(c, END, PutData(u1, d),
                              Msg("on_new_confirm_cp", "no_meta", <<"err_no_meta">>))
                      /\ UNCHANGED confirms
                 ELSE /\ Len(confirms) < MaxTable
                      /\ confirms' = create_confirm(confirms, op_id, d.brand, d.client_name,
                                                    d.phone_plus, d.counterparty_meta)
                      /\ Turn(c, "CF_PHOTO",
                              Pop([PutData(u1, d) EXCEPT !.keys = @ \cup {"confirm_id"},
                                                         !.confirm_id = Len(confirms')],
                                  {"cf_brand_only", "cf_cp_map", "confirm_batch"}),
                              Msg("on_new_confirm_cp", "brand", <<"ask_photo">>))
        ELSE LET triple == _parse_brand_client_phone(text) IN
             IF ~triple.ok
             THEN /\ Turn(c, "CF_NEW_CLICK", ud[c],
                          Msg("on_new_confirm_cp", "bad_format", <<"err_format">>))
                  /\ UNCHANGED confirms
             ELSE IF cp = 0
             THEN /\ Turn(c, END, ud[c], Msg("on_new_confirm_cp", "no_cp", <<"err_cp">>))
                  /\ UNCHANGED confirms
             ELSE /\ Len(confirms) < MaxTable
                  /\ confirms' = create_confirm(confirms, op_id, triple.brand, triple.client,
                                                triple.phone_plus, cp)
                  /\ Turn(c, "CF_PHOTO",
                          Pop([PutData(ud[c], NewData(triple.brand, triple.client,
                                                      triple.phone_plus, cp))
                                 EXCEPT !.keys = @ \cup {"confirm_id"},
                                        !.confirm_id = Len(confirms')],
                              {"confirm_batch"}),
                          Msg("on_new_confirm_cp", "format", <<"ask_photo">>))

\* cid is the id carried by any cfpick button the chat has been sent
on_pick(c) ==
    /\ conv[c] = "CF_PICK"
    /\ UNCHANGED <<kb, msg_id, confirms, files, env, tx, order, pure, auth>>
    /\ \E cid \in kb[c].cfpick :
        LET row == get_confirm(confirms, ud[c].operator, cid) IN
        IF row = 0
        THEN Turn(c, END, ud[c], Msg("on_pick", "missing", <<"err_not_found">>))
        ELSE Turn(c, "CF_PHOTO",
                  Pop([PutData(ud[c], NewData(confirms[row].brand, confirms[row].client_name,
                                              confirms[row].phone_plus,
                                              confirms[row].counterparty_meta))
                         EXCEPT !.keys = @ \cup {"confirm_id"}, !.confirm_id = cid],
                      {"confirm_batch"}),
                  Msg("on_pick", "picked", <<"ask_photo">>))

\* /kiritish commit writes an OPEN row for /tasdiq (on_review_action)
kiritish_open_row ==
    /\ Len(confirms) < MaxRows
    /\ UNCHANGED <<conv, ud, out, kb, msg_id, files, env, tx, order, pure, auth>>
    /\ \E op \in Operators, cp \in Counterparties :
        LET cp_name == Strip(CpName(cp))
            bc == _infer_brand_client_from_cp_name(cp_name)
        IN  confirms' = create_confirm(confirms, op,
                                       IF bc.brand # <<>> THEN bc.brand ELSE <<"N", "/", "A">>,
                                       bc.client, Strip(CpPhone(cp)), cp)

(* ------------------------- /tasdiq: item wizard ------------------------ *)
FieldTexts == {<<" ">>, <<" ", "k">>}
NoteTexts == {<<"n", " ">>}
SizeTexts == {<<"1", "x", "2">>, <<"1", "CYR_HA", "2">>, <<"1", " ", "*", "2">>,
              <<"1", " ", "X", " ", "2">>, <<"1", "cyr_ha", " ", "2">>,
              <<"1", "mul", "2">>, <<"1", "2">>}
QtyTexts == {<<"3", " ", "K", "g">>, <<"k", "g">>, <<"0">>, <<"k", "3">>,
             <<"2", "0", "0", "0", "0", "0", "0", "0">>}
PriceTexts == {<<"5">>, <<"a">>, <<"0">>,
               <<"6", "0", "0", "0", "0", "0", "0", "0", "0", "0">>}
ChannelLists == {{}, {1, 2}}
Folders == {1, 2}
FolderLists == {<<>>, <<2>>, <<1, 2>>}
FolderName(g) == IF g = 1 THEN <<" ", "Q", "o", "l", "i", "p">> ELSE <<"z">>

ALLOWED_GROUPS ==
    {<<"b", "i", "r", "k", "a", " ", "i", "p">>,
     <<"b", "i", "r", "k", "a", " ", "j", "a", "k", "a", "r", "d">>,
     <<"b", "i", "r", "k", "a", " ", "k", "a", "r", "t", "o", "n">>,
     <<"b", "i", "r", "k", "a", " ", "k", "o", "j", "a">>,
     <<"b", "i", "r", "k", "a", " ", "p", "e", "c", "h", "a", "t">>,
     <<"p", "a", "k", "e", "t", " ", "k", "a", "r", "t", "o", "n">>,
     <<"p", "a", "k", "e", "t", " ", "s", "a", "l", "a", "f", "a", "n">>,
     <<"p", "e", "c", "h", "a", "t">>,
     <<"q", "o", "l", "i", "p">>}

\* a name normalizer that keeps the case
norm_keep_case(s) ==
    LET t == Strip(s)
        keep == {i \in 1..Len(t) : ~(t[i] = " " /\ i > 1 /\ t[i - 1] = " ")}
        F[i \in 0..Len(t)] ==
            IF i = 0 THEN <<>> ELSE IF i \in keep THEN Append(F[i - 1], t[i]) ELSE F[i - 1]
    IN  F[Len(t)]

\* strip, lower, runs of spaces collapsed to one space
_norm_group_name(s) ==
    LET t == Lower(Strip(s))
        keep == {i \in 1..Len(t) : ~(t[i] = " " /\ i > 1 /\ t[i - 1] = " ")}
        F[i \in 0..Len(t)] ==
            IF i = 0 THEN <<>> ELSE IF i \in keep THEN Append(F[i - 1], t[i]) ELSE F[i - 1]
    IN  F[Len(t)]

\* allowed_norm = {_norm_group_name(x) for x in ALLOWED_GROUPS}
allowed_norm == {_norm_group_name(x) : x \in ALLOWED_GROUPS}

_filter_groups(groups) ==
    SelectSeq(groups, LAMBDA g : _norm_group_name(FolderName(g)) \in allowed_norm)

GROUPS_PAGE_SIZE == 10

\* the page shown, the last page, the group buttons of the page, and
\* whether the Prev and the Next button are there; the indicator button
\* (cfgp:noop) is always there
_build_groups_page_markup(groups, page_in) ==
    LET total == Len(groups)
        max_page == IF (total - 1) \div GROUPS_PAGE_SIZE > 0
                    THEN (total - 1) \div GROUPS_PAGE_SIZE ELSE 0
        low == IF page_in < max_page THEN page_in ELSE max_page
        page == IF low > 0 THEN low ELSE 0
        start == page * GROUPS_PAGE_SIZE
        stop == IF start + GROUPS_PAGE_SIZE < total THEN start + GROUPS_PAGE_SIZE ELSE total
    IN  [page |-> page, max_page |-> max_page,
         chunk |-> SubSeq(groups, start + 1, stop),
         prev |-> page > 0, next |-> page < max_page]

\* 5_000_000_000
MaxPrice == <<"5", "0", "0", "0", "0", "0", "0", "0", "0", "0">>
\* 10_000_000
MaxQty == 10000000

_item_is_complete(it, fs) ==
    /\ it.item_type # <<>> /\ it.size # <<>> /\ it.bg_color # <<>> /\ it.text_color # <<>>
    /\ it.qty > 0
    /\ it.price_uzs # <<>>
    /\ it.sales_channel_meta # 0 /\ it.group_meta # 0
    /\ it.image_path # 0 /\ it.image_path \in fs

_clone_item_for_batch(d) == [k \in ItemKeys |-> d[k]]

\* a reset that leaves the item fields as they are
reset_nothing(d) == d

_reset_item_fields_keep_cp_brand(d) ==
    [k \in DOMAIN d |-> IF k \in ItemKeys THEN EmptyItem[k] ELSE d[k]]

\* a lock that is never set
never_locked(u) == [meta |-> 0, name |-> 0]

\* (meta, name) of the first batched item, (0, 0) for an empty batch
_get_locked_batch_channel(u) ==
    IF u.confirm_batch = <<>> THEN [meta |-> 0, name |-> 0]
    ELSE [meta |-> u.confirm_batch[1].sales_channel_meta,
          name |-> u.confirm_batch[1].sales_channel_name]

\* result of a helper that ends the turn: next state, user_data, messages
Res(state, u, msgs) == [state |-> state, u |-> u, reply |-> msgs]

\* channels: the ids get_sales_channels returned
_ask_sales_channel(u, channels) ==
    IF channels = {} THEN Res(END, u, <<"err_no_channels">>)
    ELSE Res("CF_CHANNEL",
             [u EXCEPT !.keys = @ \cup {"cf_channels_map"}, !.cf_channels_map = channels],
             <<"channel_picker">>)

\* groups: the folder ids get_product_folders returned
_ask_product_group(u, groups) ==
    IF groups = <<>> THEN Res(END, u, <<"err_no_groups">>)
    ELSE IF _filter_groups(groups) = <<>> THEN Res(END, u, <<"err_no_allowed_groups">>)
    ELSE Res("CF_GROUP",
             [u EXCEPT !.keys = @ \cup {"cf_groups_all"},
                       !.cf_groups_all = _filter_groups(groups)],
             <<"group_picker">>)

TurnRes(c, h, in, r) == Turn(c, r.state, r.u, Msg(h, in, r.reply))

TurnArg(c, h, in, arg, r) ==
    Turn(c, r.state, r.u, [Msg(h, in, r.reply) EXCEPT !.arg = arg])

SetField(u, k, v) == PutData(u, [u.confirm_data EXCEPT ![k] = v])

on_photo(c) ==
    /\ conv[c] = "CF_PHOTO"
    /\ UNCHANGED <<kb, confirms, env, tx, order, pure, auth>>
    /\ \E kind \in {"photo", "image_document", "other"} :
        LET u1 == _ensure_confirm_data(ud[c])
            img_path == msg_id[c] + 1
        IN  IF kind = "other"
            THEN /\ Turn(c, "CF_PHOTO", u1, Msg("on_photo", kind, <<"err_photo">>))
                 /\ UNCHANGED <<msg_id, files>>
            ELSE /\ msg_id[c] < MaxPhotos
                 /\ msg_id' = [msg_id EXCEPT ![c] = img_path]
                 /\ files' = files \cup {img_path}
                 /\ Turn(c, "CF_KIND", SetField(u1, "image_path", img_path),
                         Msg("on_photo", kind, <<"ask_kind">>))

\* a text step that stores the stripped text and rejects empty text
TextStep(c, h, state, key, next, ask) ==
    /\ conv[c] = state
    /\ UNCHANGED <<kb, msg_id, confirms, files, env, tx, order, pure, auth>>
    /\ \E raw \in FieldTexts :
        LET u1 == _ensure_confirm_data(ud[c])
            text == Strip(raw)
        IN  IF text = <<>>
            THEN Turn(c, state, u1, Msg(h, "empty", <<"err_empty">>))
            ELSE Turn(c, next, SetField(u1, key, text), Msg(h, "ok", <<ask>>))

on_kind(c) == TextStep(c, "on_kind", "CF_KIND", "item_type", "CF_SIZE", "ask_size")

on_size(c) ==
    /\ conv[c] = "CF_SIZE"
    /\ UNCHANGED <<kb, msg_id, confirms, files, env, tx, order, pure, auth>>
    /\ \E raw \in SizeTexts :
        LET u1 == _ensure_confirm_data(ud[c])
            s == NormSize(raw)
        IN  IF ~Contains(s, "x")
            THEN Turn(c, "CF_SIZE", u1, Msg("on_size", "bad", <<"err_size">>))
            ELSE Turn(c, "CF_BG", SetField(u1, "size", s), Msg("on_size", "ok", <<"ask_bg">>))

on_bg(c) == TextStep(c, "on_bg", "CF_BG", "bg_color", "CF_TEXT", "ask_text")

on_text(c) == TextStep(c, "on_text", "CF_TEXT", "text_color", "CF_QM", "ask_qm")

on_qm(c) ==
    /\ conv[c] = "CF_QM"
    /\ UNCHANGED <<kb, msg_id, confirms, files, env, tx, order, pure, auth>>
    /\ \E raw \in NoteTexts :
        Turn(c, "CF_QTY", SetField(_ensure_confirm_data(ud[c]), "qm_note", Strip(raw)),
             Msg("on_qm", "ok", <<"ask_qty">>))

on_qty(c) ==
    /\ conv[c] = "CF_QTY"
    /\ UNCHANGED <<kb, msg_id, confirms, files, env, tx, order, pure, auth>>
    /\ \E raw \in QtyTexts, channels \in ChannelLists :
        LET u1 == _ensure_confirm_data(ud[c])
            p == _parse_qty_and_unit(raw)
        IN  IF p.qty = -1 \/ p.qty = 0
            THEN Turn(c, "CF_QTY", u1, Msg("on_qty", "bad", <<"err_qty">>))
            ELSE IF p.qty <= 0 \/ p.qty > MaxQty
            THEN Turn(c, "CF_QTY", u1, Msg("on_qty", "range", <<"err_qty_range">>))
            ELSE TurnRes(c, "on_qty", "ok",
                         _ask_sales_channel(
                             PutData(u1, [u1.confirm_data EXCEPT !.qty = p.qty,
                                                                 !.qty_unit_lat = p.unit_lat,
                                                                 !.qty_unit_ru = p.unit_ru]),
                             channels))

\* a mismatch test that never asks
never_mismatch(locked, sc_id) == FALSE

\* if locked_meta and chosen_meta != locked_meta
ChannelMismatch(locked, sc_id) == locked.meta # 0 /\ sc_id # locked.meta

\* sc_id: the channel id of the cfsc button pressed; groups: get_product_folders
on_channel_pick(c) ==
    /\ conv[c] = "CF_CHANNEL"
    /\ UNCHANGED <<msg_id, confirms, files, env, tx, order, pure, auth>>
    /\ \E sc_id \in Channels, groups \in FolderLists :
        LET u1 == _ensure_confirm_data(ud[c])
            locked == _get_locked_batch_channel(u1)
        IN  IF sc_id \notin u1.cf_channels_map
            THEN /\ Turn(c, END, u1,
                         [Msg("on_channel_pick", "missing", <<"err_channel">>)
                             EXCEPT !.arg = sc_id])
                 /\ UNCHANGED kb
            ELSE IF ChannelMismatch(locked, sc_id)
            THEN /\ Turn(c, "CF_CHANNEL", u1,
                         [Msg("on_channel_pick", "mismatch", <<"channel_lock_confirm">>)
                             EXCEPT !.arg = sc_id])
                 /\ kb' = [kb EXCEPT ![c].cfscforce = TRUE]
            ELSE /\ TurnArg(c, "on_channel_pick", "ok", sc_id,
                     _ask_product_group(
                         PutData(u1, [u1.confirm_data EXCEPT
                             !.sales_channel_meta = IF locked.meta # 0 THEN locked.meta ELSE sc_id,
                             !.sales_channel_name = IF locked.meta # 0 THEN locked.name ELSE sc_id]),
                         groups))
                 /\ UNCHANGED kb

on_channel_force(c) ==
    /\ conv[c] = "CF_CHANNEL"
    /\ kb[c].cfscforce
    /\ UNCHANGED <<kb, msg_id, confirms, files, env, tx, order, pure, auth>>
    /\ \E action \in {"ok", "retry"}, channels \in ChannelLists, groups \in FolderLists :
        LET u1 == _ensure_confirm_data(ud[c])
            locked == _get_locked_batch_channel(u1)
        IN  IF action = "retry"
            THEN TurnRes(c, "on_channel_force", "retry", _ask_sales_channel(u1, channels))
            ELSE IF locked.meta = 0
            THEN TurnRes(c, "on_channel_force", "no_lock", _ask_sales_channel(u1, channels))
            ELSE TurnRes(c, "on_channel_force", "ok",
                     _ask_product_group(
                         PutData(u1, [u1.confirm_data EXCEPT
                                         !.sales_channel_meta = locked.meta,
                                         !.sales_channel_name = locked.name]),
                         groups))

on_groups_page(c) ==
    /\ conv[c] = "CF_GROUP"
    /\ UNCHANGED <<kb, msg_id, confirms, files, env, tx, order, pure, auth>>
    /\ \E data \in {"noop", "0", "1"}, groups \in FolderLists :
        IF data = "noop"
        THEN Turn(c, "CF_GROUP", ud[c], Msg("on_groups_page", data, <<>>))
        ELSE IF ud[c].cf_groups_all = <<>>
        THEN TurnRes(c, "on_groups_page", data, _ask_product_group(ud[c], groups))
        ELSE Turn(c, "CF_GROUP", ud[c], Msg("on_groups_page", data, <<"group_picker">>))

on_group_pick(c) ==
    /\ conv[c] = "CF_GROUP"
    /\ UNCHANGED <<kb, msg_id, confirms, files, env, tx, order, pure, auth>>
    /\ \E gp_id \in Folders :
        LET u1 == _ensure_confirm_data(ud[c]) IN
        IF ~\E i \in 1..Len(u1.cf_groups_all) : u1.cf_groups_all[i] = gp_id
        THEN Turn(c, END, u1, Msg("on_group_pick", "missing", <<"err_group">>))
        ELSE Turn(c, "CF_PRICE",
                  PutData(u1, [u1.confirm_data EXCEPT !.group_meta = gp_id,
                                                      !.group_name = gp_id]),
                  Msg("on_group_pick", "ok", <<"ask_price">>))

on_price(c) ==
    /\ conv[c] = "CF_PRICE"
    /\ UNCHANGED <<kb, msg_id, confirms, files, env, tx, order, pure, auth>>
    /\ \E raw \in PriceTexts :
        LET u1 == _ensure_confirm_data(ud[c])
            ddd == _digits_only(raw)
            price == NumNorm(ddd)
        IN  IF ddd = <<>>
            THEN Turn(c, "CF_PRICE", u1, Msg("on_price", "bad", <<"err_price">>))
            ELSE IF price = <<>> \/ NumLess(MaxPrice, price)
            THEN Turn(c, "CF_PRICE", u1, Msg("on_price", "range", <<"err_price">>))
            ELSE Turn(c, "CF_REVIEW", SetField(u1, "price_uzs", price),
                      Msg("on_price", "ok", <<"review">>))

(* ------------------------- /tasdiq: review ----------------------------- *)
\* the amount sent as it was entered
Times1(n) == n

\* whole-unit amount * 100 (the smallest currency subunit)
Times100(n) == IF n = <<>> THEN <<>> ELSE n \o <<"0", "0">>

\* the channel every order of the commit is sent with
CommitChannel(u) ==
    LET locked == _get_locked_batch_channel(u) IN
    IF locked.meta # 0 THEN locked
    ELSE [meta |-> u.confirm_data.sales_channel_meta,
          name |-> u.confirm_data.sales_channel_name]

\* the batched items alone, the working item left out
batch_only(u) == u.confirm_batch

\* items of the commit: the batch, then a clone of the working item, each
\* with its channel overwritten by the commit channel when it differs
CommitItems(u) ==
    LET raw == u.confirm_batch \o <<_clone_item_for_batch(u.confirm_data)>>
        sc == CommitChannel(u)
    IN  [i \in 1..Len(raw) |->
            IF raw[i].sales_channel_meta # sc.meta
            THEN [raw[i] EXCEPT !.sales_channel_meta = sc.meta,
                                !.sales_channel_name = sc.name]
            ELSE raw[i]]

\* the submission timestamp: the override, else the clock value now
CommitMoment(d, now) == IF d.moment_iso_override # 0 THEN d.moment_iso_override ELSE now

\* the unit names _uom_meta_from_item looks up in MoySklad
KnownUoms ==
    {U_ru_sht, U_ru_sht \o <<"cyr_u", "cyr_ka", "cyr_a">>, U_ru_sht \o <<"cyr_u", "cyr_ka">>,
     U_ru_kg,
     <<"cyr_ka", "cyr_i", "cyr_el", "cyr_o", "cyr_ge", "cyr_er", "cyr_a", "cyr_em", "cyr_em">>,
     <<"cyr_ka", "cyr_i", "cyr_el", "cyr_o", "cyr_ge", "cyr_er", "cyr_a", "cyr_em">>,
     U_ru_rulon, <<"cyr_er", "cyr_u", "cyr_el">>}

\* where an exception that leaves the try block may be raised: the lookups
\* before the loop (at 0), a creation or the channel photo of item i (at i),
\* the closing message to the operator (at total + 1)
AbortPoints(total, chat_id) ==
    {NoFail} \cup {[at |-> 0, call |-> "lookup"]}
             \cup {[at |-> i, call |-> k] :
                      i \in 1..total,
                      k \in {"create_product", "create_customerorder"} \cup
                            (IF chat_id # 0 THEN {"send_photo"} ELSE {})}
             \cup {[at |-> total + 1, call |-> "send_message"]}

\* the calls whose exception is caught where it is raised
SoftCalls == {"get_or_create_uom_meta", "attach_image_to_product",
              "attach_file_to_customerorder"}

SoftPoints(total) ==
    {NoFail} \cup {[at |-> i, call |-> k] : i \in 1..total, k \in SoftCalls}

\* one external call as the log keeps it
Call(name, i, ok, it, ctx) ==
    [call |-> name, item |-> i, ok |-> ok, image |-> it.image_path,
     channel |-> ctx.sc, moment |-> ctx.moment, agent |-> ctx.cp,
     price |-> Times100(it.price_uzs), qty |-> it.qty]

\* one pass of the loop body for item i: the calls issued, and whether an
\* exception left the loop
ItemCalls(i, it, abort, soft, ctx, fs) ==
    LET fails(k) == abort = [at |-> i, call |-> k]
        caught(k) == IF soft = [at |-> i, call |-> k]
                     THEN <<Call(k, i, FALSE, it, ctx)>> ELSE <<>>
        uom == IF Lower(Strip(it.qty_unit_ru)) \in KnownUoms
               THEN caught("get_or_create_uom_meta") ELSE <<>>
        prod == <<Call("create_product", i, ~fails("create_product"), it, ctx)>>
        img == caught("attach_image_to_product")
        \* create_customerorder sets "applicable": False in its payload
        ord == <<Call("create_customerorder", i, ~fails("create_customerorder"), it, ctx)
                 @@ [applicable |-> FALSE]>>
        att == caught("attach_file_to_customerorder")
        photo == <<Call("send_photo", i, ~fails("send_photo"), it, ctx)>>
    IN  IF ~_item_is_complete(it, fs) THEN [calls |-> <<>>, raised |-> TRUE]
        ELSE IF fails("create_product") THEN [calls |-> uom \o prod, raised |-> TRUE]
        ELSE IF fails("create_customerorder")
        THEN [calls |-> uom \o prod \o img \o ord, raised |-> TRUE]
        ELSE IF ctx.chat_id = 0
        THEN [calls |-> uom \o prod \o img \o ord \o att, raised |-> FALSE]
        ELSE [calls |-> uom \o prod \o img \o ord \o att \o photo,
              raised |-> fails("send_photo")]

\* for idx, it in enumerate(items, start=1): the first exception ends the loop
RECURSIVE LoopCalls(_, _, _, _, _, _)
LoopCalls(items, i, abort, soft, ctx, fs) ==
    IF i > Len(items) THEN [calls |-> <<>>, raised |-> FALSE]
    ELSE LET r == ItemCalls(i, items[i], abort, soft, ctx, fs) IN
         IF r.raised THEN r
         ELSE LET rest == LoopCalls(items, i + 1, abort, soft, ctx, fs) IN
              [calls |-> r.calls \o rest.calls, raised |-> rest.raised]

\* the try block of on_review for action "send": the calls issued, whether
\* an exception reached the except clause, whether mark_confirm_done ran
CommitTry(u, abort, soft, now, chat_id, fs) ==
    LET items == CommitItems(u)
        ctx == [sc |-> CommitChannel(u).meta, cp |-> u.confirm_data.counterparty_meta,
                moment |-> CommitMoment(u.confirm_data, now), chat_id |-> chat_id]
        mark == Call("mark_confirm_done", 0, TRUE, EmptyItem, ctx)
    IN  IF abort.at = 0 THEN [calls |-> <<>>, raised |-> TRUE, marked |-> FALSE]
        ELSE LET r == LoopCalls(items, 1, abort, soft, ctx, fs) IN
             IF r.raised THEN [calls |-> r.calls, raised |-> TRUE, marked |-> FALSE]
             ELSE [calls |-> Append(r.calls, mark),
                   raised |-> abort.call = "send_message", marked |-> TRUE]

on_review(c) ==
    /\ conv[c] = "CF_REVIEW"
    /\ UNCHANGED <<kb, msg_id, files, env, tx, order, pure, auth>>
    /\ \E action \in {"back", "edit", "time", "add", "send", "other"} :
        LET u1 == _ensure_confirm_data(ud[c])
            d == u1.confirm_data
        IN
        CASE action = "back" ->
               /\ Turn(c, END, u1, Msg("on_review", action, <<"back">>))
               /\ UNCHANGED confirms
          [] action = "edit" ->
               /\ Turn(c, "CF_EDIT_CHOOSE", u1, Msg("on_review", action, <<"edit_menu">>))
               /\ UNCHANGED confirms
          [] action = "time" ->
               /\ Turn(c, "CF_TIME", u1, Msg("on_review", action, <<"ask_time">>))
               /\ UNCHANGED confirms
          [] action = "other" ->
               /\ Turn(c, "CF_REVIEW", u1, Msg("on_review", action, <<>>))
               /\ UNCHANGED confirms
          [] action = "add" ->
               /\ UNCHANGED confirms
               /\ IF ~_item_is_complete(d, files)
                  THEN Turn(c, "CF_REVIEW", u1, Msg("on_review", action, <<"err_incomplete">>))
                  ELSE Turn(c, "CF_PHOTO",
                            [u1 EXCEPT !.keys = @ \cup {"confirm_batch"},
                                       !.confirm_batch = Append(@, _clone_item_for_batch(d)),
                                       !.confirm_data = _reset_item_fields_keep_cp_brand(d)],
                            Msg("on_review", action, <<"added_ask_photo">>))
          [] action = "send" ->
               IF d.brand = <<>> \/ d.counterparty_meta = 0
               THEN /\ Turn(c, END, u1, Msg("on_review", action, <<"err_brand_cp">>))
                    /\ UNCHANGED confirms
               ELSE IF ~_item_is_complete(d, files)
               THEN /\ Turn(c, END, u1, Msg("on_review", action, <<"err_incomplete">>))
                    /\ UNCHANGED confirms
               ELSE
                 \E now \in (IF d.moment_iso_override # 0 THEN {d.moment_iso_override}
                             ELSE Times),
                    abort \in AbortPoints(Len(u1.confirm_batch) + 1, env.CONFIRM_CHAT_ID),
                    soft \in SoftPoints(Len(u1.confirm_batch) + 1) :
                   /\ abort = NoFail \/ soft = NoFail
                   /\ \E r \in {CommitTry(u1, abort, soft, now, env.CONFIRM_CHAT_ID, files)},
                         \* whether q.message.delete() removed the review message
                         deleted \in (IF abort.call = "send_message" THEN BOOLEAN
                                      ELSE {FALSE}) :
                      LET \* the batched dicts are the ones the loop overwrote
                          u2 == [u1 EXCEPT !.confirm_batch =
                                    SubSeq(CommitItems(u1), 1, Len(u1.confirm_batch))]
                          o == [Msg("on_review", action, <<>>) EXCEPT
                                   !.calls = r.calls,
                                   !.fault = IF abort # NoFail THEN abort ELSE soft]
                      IN  /\ confirms' = IF r.marked
                                         THEN mark_confirm_done(confirms, u1.operator,
                                                                u1.confirm_id)
                                         ELSE confirms
                          /\ IF r.raised /\ r.marked /\ deleted
                             \* the review message is gone: editing it raises and
                             \* the exception leaves the handler
                             THEN Turn(c, "CF_REVIEW", u2, o)
                             ELSE IF r.raised
                             THEN Turn(c, END, u2, [o EXCEPT !.reply = <<"err_moysklad">>])
                             ELSE Turn(c, END, Pop(u2, ConfirmKeys),
                                       [o EXCEPT !.reply = <<"accepted">>])

\* parsed: what datetime.strptime makes of the text (0: ValueError)
on_time_text(c) ==
    /\ conv[c] = "CF_TIME"
    /\ UNCHANGED <<kb, msg_id, confirms, files, env, tx, order, pure, auth>>
    /\ \E txt \in {"now", "other"}, now \in Times, parsed \in Times \cup {0} :
        LET u1 == _ensure_confirm_data(ud[c]) IN
        IF txt = "now"
        THEN Turn(c, "CF_REVIEW", SetField(u1, "moment_iso_override", now),
                  Msg("on_time_text", "now", <<"review">>))
        ELSE IF parsed = 0
        THEN Turn(c, "CF_TIME", u1, Msg("on_time_text", "bad", <<"err_time">>))
        ELSE Turn(c, "CF_REVIEW", SetField(u1, "moment_iso_override", parsed),
                  Msg("on_time_text", "ok", <<"review">>))

EditKeys == {"brand", "item", "size", "bg", "text", "qm", "qty", "channel"}

on_edit_choose(c) ==
    /\ conv[c] = "CF_EDIT_CHOOSE"
    /\ UNCHANGED <<kb, msg_id, confirms, files, env, tx, order, pure, auth>>
    /\ \E key \in EditKeys \cup {"back", "other"} :
        LET u1 == _ensure_confirm_data(ud[c]) IN
        IF key = "back"
        THEN Turn(c, "CF_REVIEW", u1, Msg("on_edit_choose", key, <<"review">>))
        ELSE IF key \notin EditKeys
        THEN Turn(c, "CF_EDIT_CHOOSE", u1, Msg("on_edit_choose", key, <<>>))
        ELSE Turn(c, "CF_EDIT_VALUE",
                  [u1 EXCEPT !.keys = @ \cup {"edit_key"}, !.edit_key = key],
                  Msg("on_edit_choose", key, <<"ask_value">>))

EditTexts(key) ==
    CASE key = "size" -> SizeTexts
      [] key = "qty" -> QtyTexts
      [] key = "qm" -> NoteTexts
      [] OTHER -> FieldTexts

on_edit_value(c) ==
    /\ conv[c] = "CF_EDIT_VALUE"
    /\ UNCHANGED <<kb, msg_id, confirms, files, env, tx, order, pure, auth>>
    /\ \E raw \in EditTexts(ud[c].edit_key), channels \in ChannelLists :
        LET u1 == _ensure_confirm_data(ud[c])
            key == u1.edit_key
            val == Strip(raw)
            d == u1.confirm_data
            reject == Turn(c, "CF_EDIT_VALUE", u1, Msg("on_edit_value", key, <<"err_value">>))
            accept(d2) == Turn(c, "CF_REVIEW", Pop(PutData(u1, d2), {"edit_key"}),
                               Msg("on_edit_value", key, <<"review">>))
        IN
        CASE key = "" -> Turn(c, "CF_EDIT_VALUE", u1, Msg("on_edit_value", key, <<"err_no_key">>))
          [] key = "brand" ->
               IF val = <<>> THEN reject ELSE accept([d EXCEPT !.brand = Upper(Strip(val))])
          [] key = "item" ->
               IF val = <<>> THEN reject ELSE accept([d EXCEPT !.item_type = Strip(val)])
          [] key = "size" ->
               IF ~Contains(NormSize(val), "x") THEN reject
               ELSE accept([d EXCEPT !.size = NormSize(val)])
          [] key = "bg" ->
               IF val = <<>> THEN reject ELSE accept([d EXCEPT !.bg_color = Strip(val)])
          [] key = "text" ->
               IF val = <<>> THEN reject ELSE accept([d EXCEPT !.text_color = Strip(val)])
          [] key = "qm" -> accept([d EXCEPT !.qm_note = Strip(val)])
          [] key = "qty" ->
               LET p == _parse_qty_and_unit(val) IN
               IF p.qty = -1 \/ p.qty = 0 THEN reject
               ELSE accept([d EXCEPT !.qty = p.qty, !.qty_unit_lat = p.unit_lat,
                                     !.qty_unit_ru = p.unit_ru])
          [] key = "channel" ->
               TurnRes(c, "on_edit_value", key,
                       _ask_sales_channel(Pop(u1, {"edit_key"}), channels))

\* a cancel that submits the working draft on its way out
cancel_submits(c) ==
    /\ conv[c] # END
    /\ UNCHANGED <<kb, msg_id, confirms, files, env, tx, order, pure, auth>>
    /\ Turn(c, END, ud[c], [Msg("cancel", "", <<"cancelled">>) EXCEPT
                               !.calls = <<[call |-> "create_customerorder"]>>])

\* /cancel is the fallback of the conversation: accepted in every state of it
cancel(c) ==
    /\ conv[c] # END
    /\ UNCHANGED <<kb, msg_id, confirms, files, env, tx, order, pure, auth>>
    /\ Turn(c, END, ud[c], Msg("cancel", "", <<"cancelled">>))

\* files under storage/tmp may be cleaned up from outside the program
FileVanish ==
    /\ \E f \in files : files' = files \ {f}
    /\ UNCHANGED <<conv, ud, out, kb, msg_id, confirms, env, tx, order, pure, auth>>

\* the handlers that open a new confirmation thread
Entry(c) ==
    \/ on_new_confirm_click(c) \/ on_cp_search_text(c)
    \/ on_cp_pick(c) \/ on_new_confirm_cp(c)

\* the handlers that continue an OPEN record up to its commit; each one is
\* enabled in the conversation state its own code returns to and on the
\* callback payloads its own code reads, whether or not build_app
\* (main.py 183-208) registers it for that state
Handlers(c) ==
    \/ tasdiq_start(c) \/ on_pick(c)
    \/ on_photo(c) \/ on_kind(c) \/ on_size(c) \/ on_bg(c) \/ on_text(c) \/ on_qm(c)
    \/ on_qty(c) \/ on_channel_pick(c) \/ on_channel_force(c)
    \/ on_groups_page(c) \/ on_group_pick(c) \/ on_price(c)
    \/ on_review(c) \/ on_time_text(c) \/ on_edit_choose(c) \/ on_edit_value(c)
    \/ cancel(c)

Next ==
    \/ \E c \in Chats : Handlers(c)
    \/ kiritish_open_row
    \/ FileVanish

\* the /tasdiq wizard over the records /kiritish leaves OPEN
Spec == Init /\ [][Next]_vars

\* opening a confirmation thread: the record list, the counterparty search
\* and the two ways to create a record, up to the first photo
NextEntry ==
    \/ \E c \in Chats : tasdiq_start(c) \/ on_pick(c) \/ Entry(c) \/ on_photo(c) \/ cancel(c)
    \/ kiritish_open_row

SpecEntry == Init /\ [][NextEntry]_vars

(* ---------------------- app/main.py: build_app ------------------------- *)
\* the keys of the states table of confirm_conv
WiredStates ==
    {"CF_PICK", "CF_PHOTO", "CF_KIND", "CF_SIZE", "CF_QTY", "CF_CHANNEL", "CF_GROUP",
     "CF_PRICE", "CF_REVIEW", "CF_EDIT_CHOOSE", "CF_EDIT_VALUE"}

\* the states table of confirm_conv: an update is handled by the handler
\* registered for the state the chat is in, when its filter or pattern
\* matches; cfnew:, cfcp:, cfscforce: and cfgp: payloads match no pattern,
\* and filters.PHOTO lets only photo messages through to on_photo
confirm_conv(c) ==
    CASE conv[c] = "CF_PICK" -> on_pick(c)
      [] conv[c] = "CF_PHOTO" -> on_photo(c) /\ out'[c].input = "photo"
      [] conv[c] = "CF_KIND" -> on_kind(c)
      [] conv[c] = "CF_SIZE" -> on_size(c)
      [] conv[c] = "CF_QTY" -> on_qty(c)
      [] conv[c] = "CF_CHANNEL" -> on_channel_pick(c)
      [] conv[c] = "CF_GROUP" -> on_group_pick(c)
      [] conv[c] = "CF_PRICE" -> on_price(c)
      [] conv[c] = "CF_REVIEW" -> on_review(c)
      [] conv[c] = "CF_EDIT_CHOOSE" -> on_edit_choose(c)
      [] conv[c] = "CF_EDIT_VALUE" -> on_edit_value(c)
      [] OTHER -> FALSE

\* a message of chat c that matches no handler of the state the chat is in
\* (nor /tasdiq, nor /cancel): a text or a document in CF_PHOTO, a photo or a
\* document in a state that takes text, any message in a state that takes a
\* button or has no entry in the table. No handler of build_app runs, so
\* nothing is stored and nothing is sent.
confirm_unmatched(c) ==
    /\ conv[c] # END
    /\ UNCHANGED <<conv, ud, kb, msg_id, confirms, files, env, tx, order, pure, auth>>
    /\ \E kind \in {"text", "photo", "document"} :
        /\ CASE conv[c] = "CF_PHOTO" -> kind # "photo"
             [] conv[c] \in {"CF_KIND", "CF_SIZE", "CF_QTY", "CF_PRICE", "CF_EDIT_VALUE"} ->
                  kind # "text"
             [] OTHER -> TRUE
        /\ out' = [out EXCEPT ![c] = Msg("", kind, <<>>)]

\* /tasdiq is the entry point (allow_reentry), /cancel the fallback
NextWired ==
    \/ \E c \in Chats : tasdiq_start(c) \/ confirm_conv(c) \/ cancel(c) \/ confirm_unmatched(c)
    \/ kiritish_open_row
    \/ FileVanish

\* the /tasdiq flow as build_app dispatches it
SpecWired == Init /\ [][NextWired]_vars

(* ---------------------------- several chats ---------------------------- *)
\* both users are logged in as operator 1 (login is by phone and password,
\* whatever the Telegram account)
InitChats ==
    /\ conv = [c \in ManyChats |-> END]
    /\ ud = [c \in ManyChats |-> [NoUserData EXCEPT !.operator = 1]]
    /\ out = [c \in ManyChats |-> NoOut]
    /\ kb = [c \in ManyChats |-> [cfpick |-> {}, cfscforce |-> FALSE]]
    /\ msg_id = [c \in ManyChats |-> 0]
    /\ confirms = <<>>
    /\ files = {}
    /\ env \in [CONFIRM_CHAT_ID : {0}, GROUP_CHAT_ID : {0}]
    /\ tx = [p \in Procs |-> NoCall]
    /\ order = [c \in ManyChats |-> NoOrder]
    /\ pure = NoPure
    /\ auth = [c \in ManyChats |-> NoAuth]

\* the first steps of /tasdiq, taken in any of the chats in any order
NextChats ==
    \/ \E c \in ManyChats :
          tasdiq_start(c) \/ on_pick(c) \/ on_photo(c) \/ on_kind(c) \/ cancel(c)
    \/ kiritish_open_row

SpecChats == InitChats /\ [][NextChats]_vars

(* ----------------------- app/handlers/order.py ------------------------- *)
\* context.user_data[k] = new[k] for every key of new, then
\* context.user_data.pop(k, None) for every k of pops
OrderUpd(u, new, pops) ==
    [k \in DOMAIN u |->
        IF k = "keys" THEN (u.keys \cup DOMAIN new) \ pops
        ELSE IF k \in pops THEN NoOrder.u[k]
        ELSE IF k \in DOMAIN new THEN new[k]
        ELSE u[k]]

\* what the handler returns and replies
OrderTurn(c, state, u, o) ==
    order' = [k \in DOMAIN order |->
                 IF k = c THEN [state |-> state, u |-> u, out |-> o]
                 ELSE IF user_of(k) = user_of(c) THEN [order[k] EXCEPT !.u = u]
                 ELSE order[k]]

\* " ".join(brand.strip().upper().split())
_norm_brand(brand) ==
    LET s == Upper(Strip(brand))
        kept[i \in 0..Len(s)] ==
            IF i = 0 THEN <<>>
            ELSE IF s[i] = " " /\ i > 1 /\ s[i - 1] = " " THEN kept[i - 1]
            ELSE Append(kept[i - 1], s[i])
    IN  kept[Len(s)]

_parse_brand_name_phone(text) ==
    LET raw == SplitDash2(Strip(text))
        parts == [i \in 1..Len(raw) |-> Strip(raw[i])]
    IN  IF Len(parts) # 3 THEN NoTriple
        ELSE LET brand == _norm_brand(parts[1])
                 phone_plus == _normalize_phone_uz(parts[3])
             IN  IF brand = <<>> \/ parts[2] = <<>> THEN NoTriple
                 ELSE IF phone_plus = <<>> THEN NoTriple
                 ELSE [ok |-> TRUE, brand |-> brand, client |-> parts[2],
                       phone_plus |-> phone_plus]

\* 0 stands for None; 13 digits or more are taken for a card number
_parse_amount(text) ==
    LET d == _digits_only(text) IN
    IF d = <<>> THEN 0
    ELSE IF Len(d) >= 13 THEN 0
    ELSE IF Len(NumNorm(d)) > 9 THEN 0
    ELSE IF 1000 <= ToInt(d) /\ ToInt(d) <= 500000000 THEN ToInt(d)
    ELSE 0

\* re.search(r"\b(\d{1,2})[./-](\d{1,2})[./-](\d{2,4})\b"): the leftmost match;
\* the result <<y, mo, d>> stands for f"{y:04d}-{mo:02d}-{d:02d}", <<>> for None
_parse_date(text) ==
    LET s == Strip(text)
        n == Len(s)
        word(i) == i \in 1..n /\ s[i] \in Digits \cup Letters
        dig(i, l) == \A j \in i..(i + l - 1) : j <= n /\ s[j] \in Digits
        sep(i) == i <= n /\ s[i] \in {".", "/", "-"}
        found == {m \in (1..n) \X {1, 2} \X {1, 2} \X {2, 3, 4} :
                     /\ ~word(m[1] - 1)
                     /\ dig(m[1], m[2]) /\ sep(m[1] + m[2])
                     /\ dig(m[1] + m[2] + 1, m[3]) /\ sep(m[1] + m[2] + m[3] + 1)
                     /\ dig(m[1] + m[2] + m[3] + 2, m[4])
                     /\ ~word(m[1] + m[2] + m[3] + m[4] + 2)}
    IN  IF found = {} THEN <<>>
        ELSE LET m == CHOOSE x \in found : \A y \in found : x[1] <= y[1]
                 d == ToInt(SubSeq(s, m[1], m[1] + m[2] - 1))
                 mo == ToInt(SubSeq(s, m[1] + m[2] + 1, m[1] + m[2] + m[3]))
                 y == ToInt(SubSeq(s, m[1] + m[2] + m[3] + 2,
                                   m[1] + m[2] + m[3] + m[4] + 1))
             IN  <<IF y < 100 THEN y + 2000 ELSE y, mo, d>>

\* re.search(r"\b([01]?\d|2[0-3]):([0-5]\d)(?::([0-5]\d))?\b"): the leftmost
\* match, with the seconds when they match; <<hh, mm, ss>> stands for
\* f"{hh:02d}:{mm:02d}:{ss:02d}", <<>> for None
_parse_time(text) ==
    LET s == Strip(text)
        n == Len(s)
        word(i) == i \in 1..n /\ s[i] \in Digits \cup Letters
        dig(i, l) == \A j \in i..(i + l - 1) : j <= n /\ s[j] \in Digits
        colon(i) == i <= n /\ s[i] = ":"
        sixty(i) == dig(i, 2) /\ s[i] \in {"0", "1", "2", "3", "4", "5"}
        hour(i, l) == /\ dig(i, l)
                      /\ \/ l = 1
                         \/ s[i] \in {"0", "1"}
                         \/ s[i] = "2" /\ s[i + 1] \in {"0", "1", "2", "3"}
        found == {m \in (1..n) \X {1, 2} \X {0, 1} :
                     LET q == m[1] + m[2] + 3 IN
                     /\ ~word(m[1] - 1)
                     /\ hour(m[1], m[2]) /\ colon(m[1] + m[2]) /\ sixty(m[1] + m[2] + 1)
                     /\ IF m[3] = 1 THEN colon(q) /\ sixty(q + 1) /\ ~word(q + 3)
                        ELSE ~word(q)}
    IN  IF found = {} THEN <<>>
        ELSE LET m == CHOOSE x \in found :
                          \A y \in found : x[1] < y[1] \/ (x[1] = y[1] /\ x[3] >= y[3])
                 q == m[1] + m[2] + 3
             IN  <<ToInt(SubSeq(s, m[1], m[1] + m[2] - 1)),
                   ToInt(SubSeq(s, m[1] + m[2] + 1, m[1] + m[2] + 2)),
                   IF m[3] = 1 THEN ToInt(SubSeq(s, q + 1, q + 2)) ELSE 0>>

\* date and time of datetime.now(TZ) where the draft has none; the clock
\* stands at 2026-01-01 12:00:00 throughout the flow
_ensure_now_date_time(u) ==
    OrderUpd(u, [date_iso |-> IF u.date_iso = <<>> THEN <<2026, 1, 1>> ELSE u.date_iso,
                 time_hms |-> IF u.time_hms = <<>> THEN <<12, 0, 0>> ELSE u.time_hms],
             {})

_cleanup_after_done(u) ==
    OrderUpd(u, <<>>, {"paytype", "cp_query", "cp_candidates", "cp", "amount_uzs",
                       "date_iso", "time_hms", "check_path", "ocr_text", "channels_map",
                       "sales_channel_meta", "edit_target"})

\* _ask_sales_channel of order.py; channels: what get_sales_channels returns
order_ask_sales_channel(c, h, in, u, channels) ==
    IF channels = {}
    THEN OrderTurn(c, END, u, Msg(h, in, <<"err_no_channels">>))
    ELSE OrderTurn(c, "STEP_CHANNEL", OrderUpd(u, [channels_map |-> channels], {}),
                   Msg(h, in, <<"ask_channel">>))

\* the step after the counterparty is known: the receipt photo for a card
\* payment, the amount for a cash payment
ask_check_or_amount(c, h, in, u) ==
    IF u.paytype = "card"
    THEN OrderTurn(c, "STEP_CHECK", u, Msg(h, in, <<"ask_check">>))
    ELSE OrderTurn(c, "STEP_AMOUNT_DATE",
                   OrderUpd(u, [date_iso |-> <<>>, time_hms |-> <<>>],
                            {"amount_uzs", "sales_channel_meta"}),
                   Msg(h, in, <<"ask_amount">>))

\* /kiritish is an entry point with allow_reentry: it is accepted in any state
\* /kiritish that asks for no login
kiritish_open(c) ==
    /\ UNCHANGED <<conv, ud, out, kb, msg_id, confirms, files, env, tx, pure, auth>>
    /\ OrderTurn(c, "STEP_PAYTYPE", order[c].u, Msg("kiritish_start", "", <<"ask_paytype">>))

kiritish_start(c) ==
    /\ UNCHANGED <<conv, ud, out, kb, msg_id, confirms, files, env, tx, pure, auth>>
    /\ IF ud[c].operator = 0
       THEN OrderTurn(c, END, order[c].u, Msg("kiritish_start", "", <<"err_login">>))
       ELSE OrderTurn(c, "STEP_PAYTYPE", order[c].u,
                      Msg("kiritish_start", "", <<"ask_paytype">>))

\* pt: the payload of the button pressed
on_paytype_chosen(c) ==
    /\ order[c].state = "STEP_PAYTYPE"
    /\ UNCHANGED <<conv, ud, out, kb, msg_id, confirms, files, env, tx, pure, auth>>
    /\ \E pt \in {"cash", "card"} :
        OrderTurn(c, "STEP_CP_SEARCH", OrderUpd(order[c].u, [paytype |-> pt], {}),
                  Msg("on_paytype_chosen", pt, <<"ask_search">>))

\* cp: what get_or_create_counterparty returns; rows: what
\* _search_counterparties returns
cp_search_text(c) ==
    /\ order[c].state = "STEP_CP_SEARCH"
    /\ UNCHANGED <<conv, ud, out, kb, msg_id, confirms, files, env, tx, pure, auth>>
    /\ \E q \in SearchTexts \cup FormatTexts, cp \in Counterparties, rows \in SearchResults :
        LET u == order[c].u IN
        IF Strip(q) = <<>>
        THEN OrderTurn(c, "STEP_CP_SEARCH", u, Msg("cp_search_text", "empty", <<"err_empty">>))
        ELSE IF _parse_brand_name_phone(q).ok
        THEN ask_check_or_amount(c, "cp_search_text", "triple", OrderUpd(u, [cp |-> cp], {}))
        ELSE OrderTurn(c, "STEP_CP_PICK", OrderUpd(u, [cp_candidates |-> rows], {}),
                       Msg("cp_search_text", "search", <<"cp_list">>))

\* on_cp_pick of order.py; cp_id is the id carried by the cp button pressed
order_on_cp_pick(c) ==
    /\ order[c].state = "STEP_CP_PICK"
    /\ UNCHANGED <<conv, ud, out, kb, msg_id, confirms, files, env, tx, pure, auth>>
    /\ \E cp_id \in Counterparties :
        LET u == order[c].u IN
        IF cp_id \notin u.cp_candidates
        THEN OrderTurn(c, END, u, Msg("on_cp_pick", "missing", <<"err_not_found">>))
        ELSE ask_check_or_amount(c, "on_cp_pick", "picked", OrderUpd(u, [cp |-> cp_id], {}))

on_cp_create_new(c) ==
    /\ order[c].state = "STEP_CP_PICK"
    /\ UNCHANGED <<conv, ud, out, kb, msg_id, confirms, files, env, tx, pure, auth>>
    /\ \E cp \in Counterparties :
        ask_check_or_amount(c, "on_cp_create_new", "new",
                            OrderUpd(order[c].u, [cp |-> cp], {}))

\* the text is drawn from the values the prompt of the edit target asks for;
\* cp is what get_or_create_counterparty returns for the edited name or phone
handle_manual_amount_date(c) ==
    /\ order[c].state = "STEP_AMOUNT_DATE"
    /\ UNCHANGED <<conv, ud, out, kb, msg_id, confirms, files, env, tx, pure, auth>>
    /\ LET u == order[c].u
           target == u.edit_target
           h == "handle_manual_amount_date"
           texts == CASE target \in {"brand", "client"} -> FieldTexts
                      [] target = "phone" -> {<<"9", "0">>, <<"a">>}
                      [] target = "date" -> {<<"1", ".", "2", ".", "2", "6">>, <<"1", "2">>}
                      [] target = "time" -> {<<"7", ":", "0", "5">>, <<"2", "5", ":", "3", "0">>}
                      [] OTHER -> {<<"5", "0", "0", "0">>, <<"9", "9">>, <<"a">>,
                                   <<"6", "0", "0", "0", "0", "0", "0", "0", "0">>}
           reject(m) == OrderTurn(c, "STEP_AMOUNT_DATE", u, Msg(h, "rejected", <<m>>))
           review(u2) == OrderTurn(c, "STEP_REVIEW", u2, Msg(h, "ok", <<"review">>))
           edited(new) == review(OrderUpd(u, new, {"edit_target"}))
       IN
       \E text \in texts, cp \in Counterparties, channels \in ChannelLists :
        LET amount == _parse_amount(text)
            u1 == _ensure_now_date_time(OrderUpd(u, [amount_uzs |-> amount], {}))
        IN
        CASE target = "amount" \/ (u.paytype = "cash" /\ target = "") ->
               IF amount = 0 THEN reject("err_amount")
               ELSE IF u.paytype = "cash" /\ u.sales_channel_meta = 0
               THEN order_ask_sales_channel(c, h, "ok", OrderUpd(u1, <<>>, {"edit_target"}),
                                            channels)
               ELSE review(OrderUpd(u1, <<>>, {"edit_target"}))
          [] target = "brand" ->
               IF _norm_brand(text) = <<>> THEN reject("err_brand") ELSE edited([cp |-> cp])
          [] target = "client" ->
               IF Strip(text) = <<>> THEN reject("err_client") ELSE edited([cp |-> cp])
          [] target = "phone" ->
               IF _normalize_phone_uz(text) = <<>> THEN reject("err_phone")
               ELSE edited([cp |-> cp])
          [] target = "date" ->
               IF _parse_date(text) = <<>> THEN reject("err_date")
               ELSE edited([date_iso |-> _parse_date(text)])
          [] target = "time" ->
               IF _parse_time(text) = <<>> THEN reject("err_time")
               ELSE edited([time_hms |-> _parse_time(text)])
          [] OTHER ->
               IF amount # 0 THEN review(u1) ELSE reject("err_input")

\* kind: what the update carries, a photo or a PDF document (the filter of
\* STEP_CHECK lets nothing else in); ocr: what detect_amount_date_time
\* returns, or that it raises (extract_text raises VisionError, and whatever
\* the client raises, and nothing on the way catches it: the exception
\* leaves the handler after check_path was stored, so no reply is sent and
\* the conversation keeps its state); the file check_<message_id>.jpg is kept
\* in files as -message_id
handle_check_optional(c) ==
    /\ order[c].state = "STEP_CHECK"
    /\ UNCHANGED <<conv, ud, out, kb, confirms, env, tx, pure, auth>>
    /\ \E kind \in {"photo", "pdf"}, channels \in ChannelLists,
          ocr \in {[ok |-> TRUE, amount |-> a, date |-> dt[1], time |-> dt[2]] :
                      a \in {0, 5000},
                      dt \in {<<<<>>, <<>>>>, <<<<2025, 12, 31>>, <<9, 0, 0>>>>}}
                  \cup {[ok |-> FALSE, amount |-> 0, date |-> <<>>, time |-> <<>>]} :
        LET u == order[c].u
            h == "handle_check_optional"
            img_path == -(msg_id[c] + 1)
            u1 == _ensure_now_date_time(
                      OrderUpd(u, [check_path |-> img_path, amount_uzs |-> ocr.amount,
                                   date_iso |-> ocr.date, time_hms |-> ocr.time,
                                   ocr_text |-> 0], {}))
        IN  IF u.paytype # "card"
            THEN /\ OrderTurn(c, END, u, Msg(h, kind, <<"err_not_card">>))
                 /\ UNCHANGED <<msg_id, files>>
            ELSE IF kind = "pdf"
            THEN /\ OrderTurn(c, "STEP_CHECK", u, Msg(h, kind, <<"err_pdf">>))
                 /\ UNCHANGED <<msg_id, files>>
            ELSE /\ msg_id[c] < MaxRows
                 /\ msg_id' = [msg_id EXCEPT ![c] = @ + 1]
                 /\ files' = files \cup {img_path}
                 /\ IF ~ocr.ok
                    THEN OrderTurn(c, "STEP_CHECK", OrderUpd(u, [check_path |-> img_path], {}),
                                   [Msg(h, "ocr_raised", <<>>) EXCEPT
                                       !.fault = [at |-> 1, call |-> "detect_amount_date_time"]])
                    ELSE IF u1.amount_uzs = 0
                    THEN OrderTurn(c, "STEP_AMOUNT_DATE", u1, Msg(h, "no_amount", <<"ask_amount">>))
                    ELSE order_ask_sales_channel(c, h, "amount", u1, channels)

\* sc_id: the channel id of the sc button pressed
on_sales_channel_chosen(c) ==
    /\ order[c].state = "STEP_CHANNEL"
    /\ UNCHANGED <<conv, ud, out, kb, msg_id, confirms, files, env, tx, pure, auth>>
    /\ \E sc_id \in Channels :
        LET u == order[c].u IN
        IF sc_id \notin u.channels_map
        THEN OrderTurn(c, END, u, Msg("on_sales_channel_chosen", "missing", <<"err_channel">>))
        ELSE OrderTurn(c, "STEP_REVIEW", OrderUpd(u, [sales_channel_meta |-> sc_id], {}),
                       [Msg("on_sales_channel_chosen", "ok", <<"review">>) EXCEPT !.arg = sc_id])

\* the payload of create_paymentin and create_cashin
create_paymentin(name, ok, u) ==
    [call |-> name, ok |-> ok, agent |-> u.cp, channel |-> u.sales_channel_meta,
     sum |-> u.amount_uzs * 100,
     moment |-> <<u.date_iso, IF u.time_hms = <<>> THEN <<0, 0, 0>> ELSE u.time_hms>>,
     applicable |-> FALSE]

\* fail: the external call that raises in this update, "" for none; an
\* exception leaves the handler, so the conversation keeps its state
on_review_action(c) ==
    /\ order[c].state = "STEP_REVIEW"
    /\ UNCHANGED <<conv, ud, out, kb, msg_id, files, env, tx, pure, auth>>
    /\ \E action \in {"edit", "back", "brand", "client", "phone", "amount", "date", "time",
                      "confirm"},
          fail \in {"", "create", "attach", "notify"} :
        LET u == order[c].u
            h == "on_review_action"
            card == u.paytype = "card"
            attached == u.check_path # 0 /\ u.check_path \in files
            create == <<create_paymentin(IF card THEN "create_paymentin" ELSE "create_cashin",
                                         fail # "create", u)>>
            attach == IF attached
                      THEN <<[call |-> IF card THEN "attach_file_to_paymentin"
                                       ELSE "attach_file_to_cashin",
                              ok |-> fail # "attach", file |-> u.check_path]>>
                      ELSE <<>>
            notify == IF env.GROUP_CHAT_ID = 0 THEN <<>>
                      ELSE <<[call |-> IF attached THEN "send_photo" ELSE "send_message",
                              ok |-> fail # "notify", chat_id |-> env.GROUP_CHAT_ID]>>
            cp_name == Strip(CpName(u.cp))
            bc == _infer_brand_client_from_cp_name(cp_name)
            row == IF ud[c].operator # 0 /\ u.cp # 0
                   THEN create_confirm(confirms, ud[c].operator,
                                       IF bc.brand # <<>> THEN bc.brand ELSE <<"N", "/", "A">>,
                                       bc.client, Strip(CpPhone(u.cp)), u.cp)
                   ELSE confirms
            raised(calls, msgs) ==
                OrderTurn(c, "STEP_REVIEW", u,
                          [Msg(h, action, msgs) EXCEPT !.calls = calls,
                                                      !.fault = [at |-> 1, call |-> fail]])
        IN
        CASE action = "edit" ->
               /\ fail = "" /\ UNCHANGED confirms
               /\ OrderTurn(c, "STEP_REVIEW", u, Msg(h, action, <<"edit_menu">>))
          [] action = "back" ->
               /\ fail = "" /\ UNCHANGED confirms
               /\ OrderTurn(c, "STEP_REVIEW", u, Msg(h, action, <<"review">>))
          [] action = "confirm" ->
               IF \/ u.paytype \notin {"cash", "card"} \/ u.cp = 0
                  \/ u.sales_channel_meta = 0 \/ u.amount_uzs <= 0 \/ u.date_iso = <<>>
               THEN /\ fail = "" /\ UNCHANGED confirms
                    /\ OrderTurn(c, END, u, Msg(h, action, <<"err_incomplete">>))
               ELSE IF fail = "create"
               THEN /\ UNCHANGED confirms
                    /\ raised(create, <<>>)
               ELSE IF fail = "attach"
               THEN /\ attached /\ UNCHANGED confirms
                    /\ raised(create \o attach, <<>>)
               ELSE /\ Len(row) <= MaxTable
                    /\ confirms' = row
                    /\ IF fail = "notify"
                       THEN /\ env.GROUP_CHAT_ID # 0
                            /\ raised(create \o attach \o notify, <<"sent", "ready">>)
                       ELSE OrderTurn(c, END, _cleanup_after_done(u),
                                      [Msg(h, action, <<"sent", "ready", "done">>)
                                          EXCEPT !.calls = create \o attach \o notify])
          [] OTHER ->
               /\ fail = "" /\ UNCHANGED confirms
               /\ OrderTurn(c, "STEP_AMOUNT_DATE", OrderUpd(u, [edit_target |-> action], {}),
                            Msg(h, action, <<"ask_value">>))

\* cancel of order.py: /cancel is the fallback of the conversation
order_cancel(c) ==
    /\ order[c].state # END
    /\ UNCHANGED <<conv, ud, out, kb, msg_id, confirms, files, env, tx, pure, auth>>
    /\ OrderTurn(c, END, order[c].u, Msg("cancel", "", <<"cancelled">>))

InitOrder ==
    /\ conv = [c \in Chats |-> END]
    /\ ud = [c \in Chats |-> [NoUserData EXCEPT !.operator = 1]]
    /\ out = [c \in Chats |-> NoOut]
    /\ kb = [c \in Chats |-> [cfpick |-> {}, cfscforce |-> FALSE]]
    /\ msg_id = [c \in Chats |-> 0]
    /\ confirms = <<>>
    /\ files = {}
    /\ env \in [CONFIRM_CHAT_ID : {0}, GROUP_CHAT_ID : {0, 1}]
    /\ tx = [p \in Procs |-> NoCall]
    /\ order = [c \in Chats |-> NoOrder]
    /\ pure = NoPure
    /\ auth = [c \in Chats |-> NoAuth]

NextOrder ==
    \/ \E c \in Chats :
          \/ kiritish_start(c) \/ on_paytype_chosen(c) \/ cp_search_text(c)
          \/ order_on_cp_pick(c) \/ on_cp_create_new(c) \/ handle_check_optional(c)
          \/ handle_manual_amount_date(c) \/ on_sales_channel_chosen(c)
          \/ on_review_action(c) \/ order_cancel(c)
    \/ FileVanish

\* the /kiritish flow
SpecOrder == InitOrder /\ [][NextOrder]_vars

(* ------------------------ validators on their own ---------------------- *)
\* no conversation is going on
Quiet ==
    /\ conv = [c \in Chats |-> END]
    /\ ud = [c \in Chats |-> [NoUserData EXCEPT !.operator = 1]]
    /\ out = [c \in Chats |-> NoOut]
    /\ kb = [c \in Chats |-> [cfpick |-> {}, cfscforce |-> FALSE]]
    /\ msg_id = [c \in Chats |-> 0]
    /\ confirms = <<>>
    /\ files = {}
    /\ env = [CONFIRM_CHAT_ID |-> 0, GROUP_CHAT_ID |-> 0]
    /\ tx = [p \in Procs |-> NoCall]
    /\ order = [c \in Chats |-> NoOrder]
    /\ auth = [c \in Chats |-> NoAuth]

ToCall(fn, args) == {[fn |-> fn, arg |-> a, done |-> FALSE, res |-> <<>>] : a \in args}

\* the validator named by pure.fn is applied to pure.arg
validator_call ==
    /\ ~pure.done
    /\ pure' = [pure EXCEPT
                   !.done = TRUE,
                   !.res = CASE pure.fn = "_normalize_phone_uz" ->
                                  _normalize_phone_uz(pure.arg)
                             [] pure.fn = "_parse_brand_name_phone" ->
                                  _parse_brand_name_phone(pure.arg)
                             [] pure.fn = "_parse_qty_and_unit" ->
                                  _parse_qty_and_unit(pure.arg)
                             [] pure.fn = "NormSize" ->
                                  NormSize(pure.arg)
                             [] pure.fn = "_filter_groups" ->
                                  _filter_groups(pure.arg)
                             [] pure.fn = "_build_groups_page_markup" ->
                                  _build_groups_page_markup(pure.arg.groups,
                                                            pure.arg.page)]
    /\ UNCHANGED <<conv, ud, out, kb, msg_id, confirms, files, env, tx, order, auth>>

\* phone texts: a prefix, then the first n characters of a local number
\* written with separators
PhonePrefixes ==
    {<<>>, <<"+">>, <<"+", "9", "9", "8">>, <<"9", "9", "8", " ">>, <<"8", "9", "9", "8">>,
     <<"7", "7", "7">>, <<"(", "9", "9", "8", ")", "0", "0">>}
PhoneLocal == <<"9", "0", " ", "1", "2", "3", "-", "4", "5", "6", "7">>
PhoneInputs ==
    {p \o SubSeq(PhoneLocal, 1, n) : p \in PhonePrefixes, n \in 0..Len(PhoneLocal)}

InitPhone == Quiet /\ pure \in ToCall("_normalize_phone_uz", PhoneInputs)
SpecPhone == InitPhone /\ [][validator_call]_vars

\* BRAND-Name-phone texts: one to four segments joined by "-"
Segments == {<<>>, <<" ">>, <<"a">>, <<" ", "a", " ", "b", " ">>, <<"9", "0">>}
RECURSIVE Joined(_)
Joined(n) ==
    IF n = 1 THEN Segments
    ELSE {t \o <<"-">> \o g : t \in Joined(n - 1), g \in Segments}
MaxSegments == 4
TripleInputs == UNION {Joined(n) : n \in 1..MaxSegments}

InitTriple == Quiet /\ pure \in ToCall("_parse_brand_name_phone", TripleInputs)
SpecTriple == InitTriple /\ [][validator_call]_vars

\* the unit vocabulary of _parse_qty_and_unit, as its three tuples list it
PieceUnits == {U_sht, U_sh, U_ru_sht, U_sht \o <<".">>, U_sh \o <<".">>}
RollUnits == {U_rulon, U_ru_rulon, U_rul, U_rul \o <<".">>}
KiloUnits == {U_kg, U_ru_kg}

\* quantity texts: digits (or none), a space (or none), a unit token (or
\* none), and tokens written before the digits
QtyNumbers == {<<>>, <<"3">>, <<"3", "0", " ", "0">>}
QtyTokens ==
    PieceUnits \cup RollUnits \cup KiloUnits
        \cup {<<>>, <<"K", "g">>, <<"d", "o", "n", "a">>, <<"a", "b", "c">>}
QtyInputs ==
    {n \o g \o t : n \in QtyNumbers, g \in {<<>>, <<" ">>}, t \in QtyTokens}
        \cup {t \o <<" ">> \o n : n \in QtyNumbers \ {<<>>}, t \in {U_kg, <<"a", "b", "c">>}}

InitQty == Quiet /\ pure \in ToCall("_parse_qty_and_unit", QtyInputs)
SpecQty == InitQty /\ [][validator_call]_vars

(* ------------------------------ properties ----------------------------- *)
Creations == {"create_product", "create_customerorder"}
Made(calls) == SelectSeq(calls, LAMBDA x : x.call \in Creations)
Orders(calls) == SelectSeq(calls, LAMBDA x : x.call = "create_customerorder")
Marks(calls) == SelectSeq(calls, LAMBDA x : x.call = "mark_confirm_done")

\* the step is the press of "send" / "add" in Review of chat c
Send(c) == conv[c] = "CF_REVIEW" /\ out'[c].input = "send" /\ on_review(c)
Add(c) == conv[c] = "CF_REVIEW" /\ out'[c].input = "add" /\ on_review(c)

\* the commit preconditions hold for the working draft of chat c
Ready(c) ==
    /\ ud[c].confirm_data.brand # <<>>
    /\ ud[c].confirm_data.counterparty_meta # 0
    /\ _item_is_complete(ud[c].confirm_data, files)

\* every batched item of chat c is complete
BatchComplete(c) ==
    \A i \in 1..Len(ud[c].confirm_batch) : _item_is_complete(ud[c].confirm_batch[i], files)

\* the record of the draft of chat c is in the table with this status
RecordIs(c, status) ==
    /\ ud[c].confirm_id \in 1..Len(confirms)
    /\ confirms[ud[c].confirm_id].status = status

C1_Post(c) ==
    LET u == ud[c]
        k == Len(u.confirm_batch)
        calls == out'[c].calls
        made == Made(calls)
        image(i) == IF i <= k THEN u.confirm_batch[i].image_path
                    ELSE u.confirm_data.image_path
    IN  /\ Len(made) = 2 * (k + 1)
        /\ \A i \in 1..(k + 1) :
             /\ made[2 * i - 1].call = "create_product"
             /\ made[2 * i].call = "create_customerorder"
             /\ made[2 * i - 1].item = i /\ made[2 * i].item = i
             /\ made[2 * i - 1].image = image(i) /\ made[2 * i].image = image(i)
             /\ made[2 * i - 1].ok /\ made[2 * i].ok
             /\ made[2 * i].moment = made[2].moment
             /\ made[2 * i].agent = u.confirm_data.counterparty_meta
        /\ Len(Marks(calls)) = 1
        /\ calls[Len(calls)].call = "mark_confirm_done"
        /\ Len(confirms') = Len(confirms)
        /\ confirms'[u.confirm_id].status = "DONE"
        /\ \A id \in 1..Len(confirms) : id # u.confirm_id => confirms'[id] = confirms[id]

\* C1: a commit from Review with k batched items and a complete working item,
\* all items complete and no external call failing, issues exactly k+1
\* create_product and k+1 create_customerorder calls, product then order for
\* item 1, 2, ..., k+1 in batch order, every order with one and the same
\* timestamp and the counterparty of the draft; mark_confirm_done then runs
\* exactly once, as the last call, and the record of the draft is DONE with
\* no other row changed.
C1_CommitPairs ==
    [][\A c \in Chats :
          (Send(c) /\ Ready(c) /\ BatchComplete(c) /\ out'[c].fault = NoFail)
              => C1_Post(c)]_vars

\* a commit of a batched item and the working item was accepted
C1_Reached ==
    \E c \in Chats :
        /\ out[c].handler = "on_review" /\ out[c].input = "send"
        /\ out[c].reply = <<"accepted">> /\ out[c].fault = NoFail
        /\ Len(Orders(out[c].calls)) = 2
        /\ \E id \in 1..Len(confirms) : confirms[id].status = "DONE"

\* C2: a commit whose record is already DONE issues no create_product and no
\* create_customerorder call.
C2_DoneCommitIsNoOp ==
    [][\A c \in Chats :
          (Send(c) /\ RecordIs(c, "DONE")) => Made(out'[c].calls) = <<>>]_vars

\* C3: a record goes from OPEN to DONE only in a commit step of its own draft
\* in which an order was created for every item, and a commit that does not
\* end with the success message leaves an OPEN record OPEN.
C3_DoneOnlyByCompleteCommit ==
    [][\A id \in 1..Len(confirms) :
          /\ (confirms[id].status = "OPEN" /\ confirms'[id].status = "DONE") =>
                \E c \in Chats :
                    /\ Send(c) /\ ud[c].confirm_id = id
                    /\ Len(Orders(out'[c].calls)) = Len(ud[c].confirm_batch) + 1
                    /\ \A j \in 1..Len(out'[c].calls) :
                          out'[c].calls[j].call \in Creations => out'[c].calls[j].ok
          /\ \A c \in Chats :
                (/\ Send(c) /\ ud[c].confirm_id = id /\ confirms[id].status = "OPEN"
                 /\ out'[c].reply # <<"accepted">>)
                    => confirms'[id].status = "OPEN"]_vars

\* C4: when an external call fails in the commit loop at item i, no creation
\* call is issued for an item after i, the operator is shown the one error
\* message and the conversation ends.
C4_FirstFailureAborts ==
    [][\A c \in Chats :
          Send(c) =>
             \A j \in 1..Len(out'[c].calls) :
                ~out'[c].calls[j].ok =>
                   /\ \A m \in 1..Len(out'[c].calls) :
                         out'[c].calls[m].call \in Creations
                             => out'[c].calls[m].item <= out'[c].calls[j].item
                   /\ out'[c].reply = <<"err_moysklad">>
                   /\ conv'[c] = END]_vars

\* C5: a commit of complete items in which only the photo sent to the
\* reporting channel fails still submits every item, marks the record DONE,
\* clears the draft and shows the success message.
C5_NotificationFailureHidden ==
    [][\A c \in Chats :
          (/\ Send(c) /\ Ready(c) /\ BatchComplete(c) /\ RecordIs(c, "OPEN")
           /\ out'[c].fault.call = "send_photo")
              => /\ out'[c].reply = <<"accepted">>
                 /\ Len(Orders(out'[c].calls)) = Len(ud[c].confirm_batch) + 1
                 /\ confirms'[ud[c].confirm_id].status = "DONE"
                 /\ ud'[c].keys \cap ConfirmKeys = {}]_vars

\* every batched item of chat c carries the channel of the first one
BatchUniform(c) ==
    \A i \in 1..Len(ud[c].confirm_batch) :
        ud[c].confirm_batch[i].sales_channel_meta = ud[c].confirm_batch[1].sales_channel_meta

\* every order of the commit step goes out with the channel of the first
\* batched item (of the working item when nothing is batched)
C6_Sent(c) ==
    LET first == IF ud[c].confirm_batch # <<>>
                 THEN ud[c].confirm_batch[1].sales_channel_meta
                 ELSE ud[c].confirm_data.sales_channel_meta
        orders == Orders(out'[c].calls)
    IN  \A j \in 1..Len(orders) : orders[j].channel = first

\* C6: in every reachable state all items of a batch carry the channel of the
\* first batched item, and every order a commit creates is sent with that
\* channel.
C6_BatchChannelLock ==
    /\ [](\A c \in Chats : BatchUniform(c))
    /\ [][\A c \in Chats : Send(c) => C6_Sent(c)]_vars

\* two items are batched
C6_Reached ==
    \E c \in Chats :
        /\ Len(ud[c].confirm_batch) = 2
        /\ ud[c].confirm_batch[2].sales_channel_meta = ud[c].confirm_batch[1].sales_channel_meta

C7_Pick(c) ==
    LET u == ud[c]
        A == _get_locked_batch_channel(u).meta
        B == out'[c].arg
    IN  /\ (u.confirm_batch # <<>> /\ B \in u.cf_channels_map /\ B # A) =>
              /\ conv'[c] = "CF_CHANNEL"
              /\ out'[c].reply = <<"channel_lock_confirm">>
              /\ kb'[c].cfscforce
              /\ ud'[c].confirm_data = u.confirm_data
              /\ ud'[c].confirm_batch = u.confirm_batch
        /\ (u.confirm_batch = <<>> /\ B \in u.cf_channels_map) =>
              ud'[c].confirm_data.sales_channel_meta = B

C7_Force(c) ==
    LET u == ud[c]
        A == _get_locked_batch_channel(u).meta
    IN  /\ (u.confirm_batch # <<>> /\ out'[c].input = "ok") =>
              /\ ud'[c].confirm_data.sales_channel_meta = A
              /\ conv'[c] \in {"CF_GROUP", END}
        /\ out'[c].input = "retry" =>
              /\ ud'[c].confirm_data = u.confirm_data
              /\ \/ conv'[c] = "CF_CHANNEL" /\ out'[c].reply = <<"channel_picker">>
                 \/ conv'[c] = END /\ out'[c].reply = <<"err_no_channels">>

\* while a batch stands, the channel of the working item changes to the
\* locked channel only, and only by a pick of it or by "proceed"
C7_OnlyLocked(c) ==
    LET u == ud[c]
        was == u.confirm_data.sales_channel_meta
        now == ud'[c].confirm_data.sales_channel_meta
    IN  (u.confirm_batch # <<>> /\ ud'[c].confirm_batch = u.confirm_batch
         /\ now # was /\ now # 0) =>
            /\ now = _get_locked_batch_channel(u).meta
            /\ \/ on_channel_force(c) /\ out'[c].input = "ok"
               \/ on_channel_pick(c) /\ out'[c].input = "ok" /\ out'[c].arg = now

\* C7: in ChooseSalesChannel with a non-empty batch whose first item has
\* channel A, a pick of a listed channel B # A leaves draft and batch as they
\* are, stays in ChooseSalesChannel and shows the two-button confirmation;
\* "proceed" sets the channel of the draft to A and goes on to the product
\* groups; "retry" leaves the draft as it is and re-opens the channel picker
\* (the flow ends with the no-channels error when the directory lists none);
\* with an empty batch the picked channel is stored as picked.
C7_ChannelLockDialogue ==
    [][\A c \in Chats :
          /\ on_channel_pick(c) => C7_Pick(c)
          /\ on_channel_force(c) => C7_Force(c)
          /\ C7_OnlyLocked(c)]_vars

\* after a mismatch was shown, "proceed" put the locked channel in the draft
C7_Reached ==
    \E c \in Chats :
        /\ kb[c].cfscforce
        /\ out[c].handler = "on_channel_force" /\ out[c].input = "ok"
        /\ ud[c].confirm_batch # <<>>
        /\ ud[c].confirm_data.sales_channel_meta = ud[c].confirm_batch[1].sales_channel_meta

C8_Add(c) ==
    LET u == ud[c]
        d == u.confirm_data
        v == ud'[c]
    IN  IF _item_is_complete(d, files)
        THEN /\ v.confirm_batch = Append(u.confirm_batch, [k \in ItemKeys |-> d[k]])
             /\ \A k \in ItemKeys : v.confirm_data[k] = EmptyItem[k]
             /\ \A k \in {"brand", "client_name", "phone_plus", "counterparty_meta"} :
                   v.confirm_data[k] = d[k]
             /\ v.confirm_id = u.confirm_id
             /\ conv'[c] = "CF_PHOTO"
        ELSE /\ v.confirm_batch = u.confirm_batch
             /\ v.confirm_data = d
             /\ conv'[c] = "CF_REVIEW"
             /\ out'[c].reply = <<"err_incomplete">>

\* an item that stays in the batch stays as it was batched
C8_Snapshot(c) ==
    \A i \in 1..Len(ud[c].confirm_batch) :
        i <= Len(ud'[c].confirm_batch) => ud'[c].confirm_batch[i] = ud[c].confirm_batch[i]

\* C8: "add to batch" on a complete working item appends a snapshot of its
\* item fields to the batch, resets the item fields of the draft, keeps
\* brand, client, phone, counterparty and record id, and moves to
\* CapturePhoto; on an incomplete item it leaves batch and draft unchanged,
\* stays in Review and shows an error; no later step changes a batched item.
C8_AddToBatch ==
    [][\A c \in Chats : (Add(c) => C8_Add(c)) /\ C8_Snapshot(c)]_vars

\* an item was just added to the batch
C8_Reached ==
    \E c \in Chats :
        /\ out[c].handler = "on_review" /\ out[c].input = "add"
        /\ out[c].reply = <<"added_ask_photo">>
        /\ conv[c] = "CF_PHOTO"
        /\ ud[c].confirm_batch # <<>>
        /\ ud[c].confirm_data.image_path = 0
        /\ ud[c].confirm_data.brand # <<>>

\* the normalized (operator, brand, phone) of row i
RowKey(tbl, i) ==
    <<tbl[i].operator_id, Upper(Strip(tbl[i].brand)), Strip(tbl[i].phone_plus)>>

\* C9: after any sequence of create_confirm_upsert and mark_confirm_done
\* calls no two OPEN rows have the same (operator, brand, phone).
C9_OneOpenPerKey ==
    \A i, j \in 1..Len(confirms) :
        (i # j /\ confirms[i].status = "OPEN" /\ confirms[j].status = "OPEN")
            => RowKey(confirms, i) # RowKey(confirms, j)

\* C10: whatever the interleaving of the statements of two concurrent
\* create_confirm_upsert calls, each key has at most one OPEN row.
C10_OneOpenPerKeyConcurrent ==
    \A k \in {RowKey(confirms, i) : i \in 1..Len(confirms)} :
        Cardinality({i \in 1..Len(confirms) :
                        confirms[i].status = "OPEN" /\ RowKey(confirms, i) = k}) <= 1

\* a step in which mark_confirm_done was called
MarkCalled ==
    /\ tx'[1].call = "mark_confirm_done"
    /\ ~(/\ tx[1].call = "mark_confirm_done"
         /\ tx[1].args = tx'[1].args
         /\ tx[1].ret = tx'[1].ret
         /\ confirms' = confirms)

\* an OPEN row with that id, owned by that operator, exists
OpenRowOf(tbl, op, cid) ==
    \E i \in 1..Len(tbl) :
        i = cid /\ tbl[i].operator_id = op /\ tbl[i].status = "OPEN"

\* C11: mark_confirm_done(operator, id) returns "changed" and sets the
\* status to DONE exactly when an OPEN row with that id owned by that
\* operator exists; on a DONE row or a nonexistent id it returns "no change"
\* and modifies no row; a DONE row stays DONE, so over any sequence of calls
\* on one OPEN record "changed" is returned exactly once.
C11_MarkDoneOnce ==
    /\ [][MarkCalled =>
            LET op == tx'[1].args.operator_id
                cid == tx'[1].args.confirm_id
            IN  IF OpenRowOf(confirms, op, cid)
                THEN /\ tx'[1].ret = 1
                     /\ confirms' = [confirms EXCEPT ![cid].status = "DONE"]
                ELSE /\ tx'[1].ret = 0
                     /\ confirms' = confirms]_vars
    /\ [][\A i \in 1..Len(confirms) :
            confirms[i].status = "DONE"
                => i <= Len(confirms') /\ confirms'[i].status = "DONE"]_vars

\* mark_confirm_done was called again on a row it already closed
C11_Reached ==
    /\ tx[1].call = "mark_confirm_done"
    /\ tx[1].ret = 0
    /\ tx[1].args.confirm_id <= Len(confirms)
    /\ confirms[tx[1].args.confirm_id].status = "DONE"
    /\ confirms[tx[1].args.confirm_id].operator_id = tx[1].args.operator_id
    /\ tx[1].args.operator_id # 0

\* C12: over any sequence of store operations and flow steps a row of the
\* confirms table is never removed, its status never goes from DONE back to
\* OPEN, and its client name and counterparty reference change only while
\* it is OPEN.
C12_RecordLifecycle ==
    [][\A i \in 1..Len(confirms) :
        /\ i <= Len(confirms')
        /\ confirms[i].status = "DONE" => confirms'[i].status = "DONE"
        /\ (\/ confirms'[i].client_name # confirms[i].client_name
            \/ confirms'[i].counterparty_meta # confirms[i].counterparty_meta)
               => confirms[i].status = "OPEN"]_vars

\* an upsert that had SELECTed a row returned after the row was marked DONE,
\* and the row does not carry the client name of that call
C12_Reached ==
    \E p \in Procs :
        /\ tx[p].pc = "idle" /\ tx[p].call = "create_confirm_upsert"
        /\ tx[p].row # 0 /\ tx[p].ret = tx[p].row
        /\ confirms[tx[p].row].status = "DONE"
        /\ confirms[tx[p].row].client_name # Strip(tx[p].args.client_name)

\* C13: in the /tasdiq flow as build_app wires it, valid inputs drive the
\* conversation from PickExistingOrNew through CapturePhoto, ItemKind, Size,
\* BackgroundColor, TextColor, Note, QuantityAndUnit, ChooseSalesChannel,
\* ChooseProductGroup and Price to Review: every state the conversation is
\* left in is a state build_app registers a handler for, so the next valid
\* input is taken and Review and Commit are reachable.
C13_WiredFlowGoesOn ==
    \A c \in Chats : conv[c] \in WiredStates \cup {END}

\* as wired, no chat is ever in Review
C13_ReviewNotWired ==
    \A c \in Chats : conv[c] \notin {"CF_TEXT", "CF_QM", "CF_QTY", "CF_CHANNEL", "CF_GROUP",
                                     "CF_PRICE", "CF_REVIEW", "CF_EDIT_CHOOSE",
                                     "CF_EDIT_VALUE", "CF_TIME"}

\* C16: when "send" is pressed in Review and a commit precondition fails
\* (brand or counterparty missing, a required item field missing, the image
\* file missing on disk, channel or group not chosen), no external creation
\* call is made, the operator gets an error, and the conversation returns
\* to Review instead of ending.
C16_PreconditionFailureKeepsReview ==
    [][\A c \in Chats :
          (Send(c) /\ ~Ready(c))
              => /\ Made(out'[c].calls) = <<>>
                 /\ out'[c].reply # <<>>
                 /\ conv'[c] = "CF_REVIEW"]_vars

\* item i of the commit of chat c meets every commit precondition
C17_ItemValid(c, i) ==
    LET it == CommitItems(ud[c])[i] IN
    /\ ud[c].confirm_data.counterparty_meta # 0
    /\ _item_is_complete(it, files)
    /\ it.qty > 0 /\ it.qty <= MaxQty
    /\ it.price_uzs # <<>> /\ NumNorm(it.price_uzs) # <<>>
    /\ ~NumLess(MaxPrice, it.price_uzs)

\* C17: every item for which a product or an order is created at /tasdiq
\* commit has a counterparty reference, all required item fields, a chosen
\* sales channel and product group, an image file that exists on disk, a
\* quantity in (0, 10,000,000] and a price in (0, 5,000,000,000], on every
\* path to commit, a quantity changed through Edit included.
C17_CreatedItemsValid ==
    [][\A c \in Chats :
          Send(c) => \A n \in 1..Len(out'[c].calls) :
                        out'[c].calls[n].call \in Creations
                            => C17_ItemValid(c, out'[c].calls[n].item)]_vars


\* ---------------------------------------------------------------------------
\* C14: in the /kiritish flow of a card payment whose receipt gave no amount,
\* a valid amount typed by the operator leads to the choice of the sales
\* channel (or ends the flow when no channel is on offer), and only from there
\* to the review.
C14_ManualAmountAsksChannel ==
    [][\A c \in Chats :
         (/\ order[c].state = "STEP_AMOUNT_DATE"
          /\ order[c].out.handler = "handle_check_optional"
          /\ order[c].out.input = "no_amount"
          /\ order'[c].out.handler = "handle_manual_amount_date"
          /\ order'[c].out.input = "ok")
         => order'[c].state \in {"STEP_CHANNEL", END}]_vars


\* ---------------------------------------------------------------------------
\* C15: when the operator confirms the review of a card payment whose amount a
\* was typed by hand after the receipt photo, and no external call fails, the
\* update makes exactly one payment-document creation call, with sum = 100 * a,
\* attaches the receipt file, and appends one OPEN record of the operator
\* whose brand is the upper-cased first word of the counterparty name and
\* whose client name is the rest of it.
C15_CardManualConfirmCommits ==
    [][\A c \in Chats :
         (/\ order[c].state = "STEP_REVIEW"
          /\ order[c].out.handler = "handle_manual_amount_date"
          /\ order[c].out.input = "ok"
          /\ order[c].u.paytype = "card"
          /\ order[c].u.cp # 0
          /\ order[c].u.amount_uzs > 0
          /\ order[c].u.check_path \in files
          /\ order'[c].out.handler = "on_review_action"
          /\ order'[c].out.input = "confirm"
          /\ order'[c].out.fault = NoFail)
         => LET calls == order'[c].out.calls
                made == {i \in 1..Len(calls) :
                            calls[i].call \in {"create_paymentin", "create_cashin"}}
            IN  /\ Cardinality(made) = 1
                /\ \A i \in made : /\ calls[i].call = "create_paymentin"
                                   /\ calls[i].sum = 100 * order[c].u.amount_uzs
                /\ \E i \in 1..Len(calls) :
                      /\ calls[i].call = "attach_file_to_paymentin"
                      /\ calls[i].file = order[c].u.check_path
                /\ Len(confirms') = Len(confirms) + 1
                /\ confirms'[Len(confirms')].status = "OPEN"
                /\ confirms'[Len(confirms')].operator_id = ud[c].operator
                /\ confirms'[Len(confirms')].brand = <<"K">>
                /\ confirms'[Len(confirms')].client_name = <<"a", "l", "i">>]_vars


\* ---------------------------------------------------------------------------
\* C18: a message that is not a photo, sent while the /tasdiq flow waits for
\* the photo of the item, leaves the conversation in CF_PHOTO and the draft
\* and the batch as they were, and is answered with a validation message in
\* the same turn.
C18_NonPhotoIsAnswered ==
    [][\A c \in Chats :
         (/\ conv[c] = "CF_PHOTO"
          /\ out'[c] # out[c]
          /\ out'[c].handler \in {"", "on_photo"}
          /\ out'[c].input \in {"text", "document", "image_document", "other"})
         => /\ conv'[c] = "CF_PHOTO"
            /\ ud'[c].confirm_data = ud[c].confirm_data
            /\ ud'[c].confirm_batch = ud[c].confirm_batch
            /\ out'[c].reply # <<>>]_vars


\* ---------------------------------------------------------------------------
\* C19: /cancel in any state of the /tasdiq flow ends the conversation and
\* leaves neither the draft (confirm_data) nor the batch (confirm_batch) in
\* the session.
C19_CancelDiscardsDraft ==
    [][\A c \in Chats :
         (conv[c] # END /\ out'[c].handler = "cancel")
         => /\ conv'[c] = END
            /\ ud'[c].keys \cap {"confirm_data", "confirm_batch"} = {}]_vars


\* ---------------------------------------------------------------------------
\* C20: when a confirm of the /kiritish review has created the payment
\* document, and attached the receipt where there is one, the update leaves
\* none of the keys of the flow in the session, ends the conversation and
\* leaves the operator session as it was.
C20_CommitClearsSession ==
    [][\A c \in Chats :
         (/\ order[c].state = "STEP_REVIEW"
          /\ order'[c].out.handler = "on_review_action"
          /\ order'[c].out.input = "confirm"
          /\ LET calls == order'[c].out.calls IN
             /\ \E i \in 1..Len(calls) :
                   calls[i].call \in {"create_paymentin", "create_cashin"}
             /\ \A i \in 1..Len(calls) :
                   calls[i].call \in {"create_paymentin", "create_cashin",
                                      "attach_file_to_paymentin", "attach_file_to_cashin"}
                   => calls[i].ok)
         => /\ order'[c].state = END
            /\ order'[c].u.keys = {}
            /\ ud'[c].operator = ud[c].operator]_vars


\* ---------------------------------------------------------------------------
\* C21: when the OCR of an uploaded receipt raises or finds no amount, the
\* /kiritish flow goes on to the manual entry of the amount and prompts for
\* it; it neither stays in STEP_CHECK nor ends.
C21_OcrFailureAsksAmount ==
    [][\A c \in Chats :
         (/\ order[c].state = "STEP_CHECK"
          /\ order'[c].out # order[c].out
          /\ order'[c].out.handler = "handle_check_optional"
          /\ order'[c].out.input \in {"no_amount", "ocr_raised"})
         => /\ order'[c].state = "STEP_AMOUNT_DATE"
            /\ order'[c].out.reply # <<>>]_vars


\* ---------------------------------------------------------------------------
\* C22: an update of the /tasdiq flow issues create_product or
\* create_customerorder only when it is the press of "send" handled by
\* on_review in CF_REVIEW; no other state or action issues them.
C22_CreationOnlyOnSend ==
    [][\A c \in Chats :
         (out'[c] # out[c] /\ Made(out'[c].calls) # <<>>)
         => /\ conv[c] = "CF_REVIEW"
            /\ out'[c].handler = "on_review"
            /\ out'[c].input = "send"]_vars

\* a "send" in Review has issued both creation calls
C22_Reached ==
    \E c \in Chats :
        /\ out[c].handler = "on_review" /\ out[c].input = "send"
        /\ \E i, j \in 1..Len(out[c].calls) :
              /\ out[c].calls[i].call = "create_product"
              /\ out[c].calls[j].call = "create_customerorder"

\* the same for the /kiritish flow: create_paymentin and create_cashin are
\* called only by on_review_action for "confirm" in STEP_REVIEW
C22_PaymentOnlyOnConfirm ==
    [][\A c \in Chats :
         (/\ order'[c].out # order[c].out
          /\ \E i \in 1..Len(order'[c].out.calls) :
                order'[c].out.calls[i].call \in {"create_paymentin", "create_cashin"})
         => /\ order[c].state = "STEP_REVIEW"
            /\ order'[c].out.handler = "on_review_action"
            /\ order'[c].out.input = "confirm"]_vars


\* ---------------------------------------------------------------------------
\* C23: while an update of one chat is handled, the draft and the batch of
\* every other chat that is in the middle of its flow stay as they were.
C23_ChatsShareNoDraft ==
    [][\A c \in ManyChats : \A k \in ManyChats \ {c} :
         (out'[c] # out[c] /\ conv[k] \notin {END, "CF_PICK"})
         => /\ ud'[k].confirm_data = ud[k].confirm_data
            /\ ud'[k].confirm_batch = ud[k].confirm_batch
            /\ ud'[k].keys = ud[k].keys]_vars

\* the same for chats of different users
C23_UsersShareNoDraft ==
    [][\A c \in ManyChats : \A k \in ManyChats \ {c} :
         (out'[c] # out[c] /\ conv[k] \notin {END, "CF_PICK"} /\ user_of(k) # user_of(c))
         => /\ ud'[k].confirm_data = ud[k].confirm_data
            /\ ud'[k].confirm_batch = ud[k].confirm_batch
            /\ ud'[k].keys = ud[k].keys]_vars


\* ---------------------------------------------------------------------------
\* C24: the image files downloaded for the drafts of two chats of different
\* users never have the same path.
C24_ImagePathsDiffer ==
    \A c \in ManyChats : \A k \in ManyChats \ {c} :
        (user_of(c) # user_of(k) /\ ud[c].confirm_data.image_path # 0)
        => ud[c].confirm_data.image_path # ud[k].confirm_data.image_path


\* ---------------------------------------------------------------------------
\* C25: in every commit of /tasdiq the sale price of each create_product call
\* and the position price of each create_customerorder call is the price of
\* its item, as entered in whole units, times 100, and every
\* create_customerorder payload carries applicable = false.
C25_OrderPayload ==
    [][\A c \in Chats :
         Send(c)
         => LET items == CommitItems(_ensure_confirm_data(ud[c]))
                calls == out'[c].calls
            IN  \A n \in 1..Len(calls) :
                   LET x == calls[n] IN
                   /\ x.call \in Creations
                      => /\ x.item \in 1..Len(items)
                         /\ x.price = items[x.item].price_uzs \o <<"0", "0">>
                   /\ x.call = "create_customerorder" => x.applicable = FALSE]_vars

\* a commit has sent an order for an item priced 5 with position price 500
C25_Reached ==
    \E c \in Chats :
        /\ out[c].handler = "on_review" /\ out[c].input = "send"
        /\ \E n \in 1..Len(out[c].calls) :
              /\ out[c].calls[n].call = "create_customerorder"
              /\ out[c].calls[n].ok
              /\ out[c].calls[n].price = <<"5", "0", "0">>

\* the same for /kiritish: the payload of create_paymentin and create_cashin
\* carries sum = 100 * the amount of the draft and applicable = false
C25_PaymentPayload ==
    [][\A c \in Chats :
         (/\ order[c].state = "STEP_REVIEW"
          /\ order'[c].out.handler = "on_review_action"
          /\ order'[c].out.input = "confirm")
         => \A n \in 1..Len(order'[c].out.calls) :
               LET x == order'[c].out.calls[n] IN
               x.call \in {"create_paymentin", "create_cashin"}
               => /\ x.sum = 100 * order[c].u.amount_uzs
                  /\ x.applicable = FALSE]_vars


\* ---------------------------------------------------------------------------
\* C26: with d the digits of the text, _normalize_phone_uz returns the empty
\* string when d is empty, +998 followed by d when d has 9 digits, "+"
\* followed by d when d has 12 digits and starts with 998, and +998 followed
\* by the last 9 digits of d when d has more than 12 digits.
C26_PhoneNormalization ==
    (pure.fn = "_normalize_phone_uz" /\ pure.done)
    => LET d == SelectSeq(pure.arg, LAMBDA ch : ch \in Digits)
           n == Len(d)
           uz == <<"+", "9", "9", "8">>
       IN  /\ n = 0 => pure.res = <<>>
           /\ n = 9 => pure.res = uz \o d
           /\ (n = 12 /\ SubSeq(d, 1, 3) = <<"9", "9", "8">>) => pure.res = <<"+">> \o d
           /\ n > 12 => pure.res = uz \o SubSeq(d, n - 8, n)

\* a text with 14 digits was cut down to its last 9
C26_Reached ==
    /\ pure.fn = "_normalize_phone_uz" /\ pure.done
    /\ Len(SelectSeq(pure.arg, LAMBDA ch : ch \in Digits)) = 14
    /\ pure.res = <<"+", "9", "9", "8", "9", "0", "1", "2", "3", "4", "5", "6", "7">>


\* ---------------------------------------------------------------------------
\* C27: _parse_brand_name_phone returns a triple only for a text made of
\* exactly three segments separated by "-", none of brand, name and phone
\* empty, and the brand of the triple is the first segment trimmed and
\* upper-cased; for every other text it returns no match.
C27_TripleOnlyForThreeSegments ==
    (pure.fn = "_parse_brand_name_phone" /\ pure.done)
    => LET dashes == Len(SelectSeq(pure.arg, LAMBDA ch : ch = "-"))
           d1 == DashFrom(pure.arg, 1)
       IN  /\ dashes # 2 => ~pure.res.ok
           /\ pure.res.ok
              => /\ pure.res.brand # <<>> /\ pure.res.client # <<>>
                 /\ pure.res.phone_plus # <<>>
                 /\ pure.res.brand = Strip(pure.res.brand)
                 /\ pure.res.brand = Upper(pure.res.brand)
                 /\ Upper(Strip(SubSeq(pure.arg, 1, d1 - 1))) = pure.res.brand


\* ---------------------------------------------------------------------------
\* C28: for a text that begins with digits, _parse_qty_and_unit returns the
\* number the digits spell, with an empty unit when nothing follows, with the
\* canonical unit of the class when a token of the piece, roll or kilogram
\* vocabulary follows, and with the token itself (lower-cased) as the unit
\* when another alphabetic token follows; for a text without a digit it
\* returns the rejection.
C28_QtyUnitParser ==
    (pure.fn = "_parse_qty_and_unit" /\ pure.done)
    => LET t == Lower(Strip(pure.arg))
           n == NumPrefix(t, 1)
           num == SelectSeq(SubSeq(t, 1, n), LAMBDA ch : ch \in Digits)
           tok == Strip(SubSeq(t, n + 1, Len(t)))
           is(lat, ru) == pure.res = [qty |-> ToInt(num), unit_lat |-> lat, unit_ru |-> ru]
       IN  /\ SelectSeq(t, LAMBDA ch : ch \in Digits) = <<>> => pure.res = QtyNone
           /\ (num # <<>> /\ tok = <<>>) => is(<<>>, <<>>)
           /\ (num # <<>> /\ tok \in PieceUnits) => is(U_sht, U_ru_sht)
           /\ (num # <<>> /\ tok \in RollUnits) => is(U_rulon, U_ru_rulon)
           /\ (num # <<>> /\ tok \in KiloUnits) => is(U_kg, U_ru_kg)
           /\ (/\ num # <<>> /\ tok # <<>>
               /\ tok \notin PieceUnits \cup RollUnits \cup KiloUnits
               /\ \A i \in 1..Len(tok) : tok[i] \in Letters)
              => is(tok, tok)


\* ---------------------------------------------------------------------------
\* C29: a quantity text that does not begin with a digit is rejected by
\* on_qty: no step of on_qty that goes on from CF_QTY stores the quantity
\* and unit parsed from such a text.
C29_LettersFirstRejected ==
    [][\A c \in Chats :
         (/\ conv[c] = "CF_QTY"
          /\ out'[c].handler = "on_qty"
          /\ out'[c].input = "ok")
         => \A raw \in QtyTexts :
               LET t == Strip(raw)
                   p == _parse_qty_and_unit(raw)
                   d == ud'[c].confirm_data
               IN  (t = <<>> \/ t[1] \notin Digits)
                   => ~(d.qty = p.qty /\ d.qty_unit_lat = p.unit_lat
                        /\ d.qty_unit_ru = p.unit_ru)]_vars


\* ---------------------------------------------------------------------------
\* size texts: two dimension values with one of the separators between
\* them, a space or none on either side of it, and texts without separator
Dimensions == {<<"1">>, <<"1", "0">>, <<"2", "5">>}
Separators == {"x", "X", "cyr_ha", "CYR_HA", "*"}
Pads == {<<>>, <<" ">>}
SizeText(a, l, sep, r, b) == a \o l \o <<sep>> \o r \o b
Unseparated == {a \o m \o b : a \in Dimensions, b \in Dimensions,
                              m \in {<<>>, <<" ">>, <<"-">>, <<"mul">>}}
SizeInputs ==
    {SizeText(a, l, sep, r, b) : a \in Dimensions, l \in Pads, sep \in Separators,
                                 r \in Pads, b \in Dimensions}
    \cup Unseparated

InitSize == Quiet /\ pure \in ToCall("NormSize", SizeInputs)
SpecSize == InitSize /\ [][validator_call]_vars

\* C30: whichever separator stands between the dimension values a and b,
\* with or without spaces around it, the size computed by on_size holds an
\* "x" (so it is accepted) and is the one string a, "x", b; the size
\* computed from a text without separator holds no "x" (so it is rejected).
C30_SizeCanonical ==
    (pure.fn = "NormSize" /\ pure.done) =>
        /\ \A a \in Dimensions, b \in Dimensions, l \in Pads, r \in Pads,
              sep \in Separators :
              pure.arg = SizeText(a, l, sep, r, b)
              => /\ Contains(pure.res, "x")
                 /\ pure.res = a \o <<"x">> \o b
        /\ pure.arg \in Unseparated => ~Contains(pure.res, "x")

\* the sizes of "10 X 25" and of "1025" have been computed
C30_Reached ==
    /\ pure.fn = "NormSize" /\ pure.done
    /\ \/ pure.arg = <<"1", "0", " ", "X", " ", "2", "5">>
       \/ pure.arg = <<"1", "0", "2", "5">>


\* ---------------------------------------------------------------------------
\* C31: a size text <dimension><separator><dimension> whose separator is
\* x, X, the multiplication sign or * is accepted (its computed size holds
\* an "x") and is normalized to the dimensions with "x" between them.
C31_MulSignAccepted ==
    (pure.fn = "NormSize" /\ pure.done) =>
        \A a \in Dimensions, b \in Dimensions, sep \in {"x", "X", "mul", "*"} :
            pure.arg = a \o <<sep>> \o b
            => /\ Contains(pure.res, "x")
               /\ pure.res = a \o <<"x">> \o b


\* ---------------------------------------------------------------------------
\* C32: what a /kiritish commit submits was set during the flow that
\* commits: a cash payment never gets a receipt file attached, as the
\* cash path asks for none.
C32_CashHasNoReceipt ==
    [][\A c \in Chats :
         (/\ order[c].state = "STEP_REVIEW"
          /\ order[c].u.paytype = "cash"
          /\ order'[c].out.handler = "on_review_action"
          /\ order'[c].out.input = "confirm")
         => \A i \in 1..Len(order'[c].out.calls) :
               order'[c].out.calls[i].call
                   \notin {"attach_file_to_cashin", "attach_file_to_paymentin"}]_vars


C33_PaymentInserts ==
    [][\A c \in Chats :
         (/\ order[c].state = "STEP_REVIEW" /\ order'[c].state = END
          /\ order'[c].out.input = "confirm"
          /\ order'[c].out.reply # <<"err_incomplete">>)
         => /\ Len(confirms') = Len(confirms) + 1
            /\ SubSeq(confirms', 1, Len(confirms)) = confirms
            /\ confirms'[Len(confirms')].status = "OPEN"]_vars


\* ---------------------------------------------------------------------------
\* the callback prefixes of the inline keyboard a /tasdiq reply carries
\* (confirm.py 90-94, 101-109, 372, 406-413, 492-498, 559-561, 889-890)
Keyboard(reply) ==
    CASE reply = "pick_list" -> {"cfnew", "cfpick"}
      [] reply = "cp_list" -> {"cfcp"}
      [] reply = "ask_channel" -> {"cfsc"}
      [] reply = "channel_lock_confirm" -> {"cfscforce"}
      [] reply = "group_picker" -> {"cfg", "cfgp"}
      [] reply = "review" -> {"cfr"}
      [] reply = "edit_menu" -> {"cfe"}
      [] OTHER -> {}

\* the callback patterns build_app registers for a state of confirm_conv
Patterns(state) ==
    CASE state = "CF_PICK" -> {"cfpick"}
      [] state = "CF_CHANNEL" -> {"cfsc"}
      [] state = "CF_GROUP" -> {"cfg"}
      [] state = "CF_REVIEW" -> {"cfr"}
      [] state = "CF_EDIT_CHOOSE" -> {"cfe"}
      [] OTHER -> {}

\* C34: every inline button the operator has been shown in the state the
\* conversation is in carries a payload that a handler registered for that
\* state matches.
C34_ButtonsAreHandled ==
    \A c \in Chats :
        \A i \in 1..Len(out[c].reply) : Keyboard(out[c].reply[i]) \subseteq Patterns(conv[c])


(* ------------------------------- /login -------------------------------- *)
\* the operators table: the id of a row is its index
Credentials ==
    <<[phone |-> <<"9", "0">>, password |-> <<"a">>],
      [phone |-> <<"9", "1">>, password |-> <<"b">>]>>

\* SELECT id, phone, name FROM operators WHERE phone=? AND password=?, both
\* stripped; 0 when no row is found
check_operator(phone, password) ==
    LET found == {i \in DOMAIN Credentials :
                     /\ Credentials[i].phone = Strip(phone)
                     /\ Credentials[i].password = Strip(password)}
    IN  IF found = {} THEN 0 ELSE CHOOSE i \in found : \A j \in found : i <= j

LoginTexts == {<<"9", "0">>, <<"9", "1", " ">>, <<"a">>, <<" ", "b">>}

\* /login is an entry point with allow_reentry
login_start(c) ==
    /\ UNCHANGED <<conv, ud, kb, msg_id, confirms, files, env, tx, order, pure>>
    /\ auth' = [auth EXCEPT ![c].state = "LOG_PHONE"]
    /\ out' = [out EXCEPT ![c] = Msg("login_start", "", <<"ask_phone">>)]

login_phone(c) ==
    /\ auth[c].state = "LOG_PHONE"
    /\ UNCHANGED <<conv, ud, kb, msg_id, confirms, files, env, tx, order, pure>>
    /\ \E text \in LoginTexts :
        /\ auth' = [auth EXCEPT ![c] = [state |-> "LOG_PASS", log_phone |-> Strip(text)]]
        /\ out' = [out EXCEPT ![c] = Msg("login_phone", "", <<"ask_password">>)]

login_pass(c) ==
    /\ auth[c].state = "LOG_PASS"
    /\ UNCHANGED <<conv, kb, msg_id, confirms, files, env, tx, order, pure>>
    /\ \E text \in LoginTexts :
        LET row == check_operator(auth[c].log_phone, Strip(text)) IN
        /\ auth' = [auth EXCEPT ![c].state = END]
        /\ IF row = 0
           THEN /\ UNCHANGED ud
                /\ out' = [out EXCEPT ![c] = Msg("login_pass", "bad", <<"err_login">>)]
           ELSE /\ ud' = [k \in DOMAIN ud |->
                             IF user_of(k) = user_of(c) THEN [ud[k] EXCEPT !.operator = row]
                             ELSE ud[k]]
                /\ out' = [out EXCEPT ![c] = Msg("login_pass", "ok", <<"welcome">>)]

\* cancel of auth.py: /cancel is the fallback of the conversation
auth_cancel(c) ==
    /\ auth[c].state # END
    /\ UNCHANGED <<conv, ud, kb, msg_id, confirms, files, env, tx, order, pure>>
    /\ auth' = [auth EXCEPT ![c].state = END]
    /\ out' = [out EXCEPT ![c] = Msg("cancel", "", <<"cancelled">>)]

\* nobody is logged in
InitLogin ==
    /\ conv = [c \in Chats |-> END]
    /\ ud = [c \in Chats |-> NoUserData]
    /\ out = [c \in Chats |-> NoOut]
    /\ kb = [c \in Chats |-> [cfpick |-> {}, cfscforce |-> FALSE]]
    /\ msg_id = [c \in Chats |-> 0]
    /\ confirms = <<>>
    /\ files = {}
    /\ env = [CONFIRM_CHAT_ID |-> 0, GROUP_CHAT_ID |-> 0]
    /\ tx = [p \in Procs |-> NoCall]
    /\ order = [c \in Chats |-> NoOrder]
    /\ pure = NoPure
    /\ auth = [c \in Chats |-> NoAuth]

\* login_conv is registered before order_conv and confirm_conv: while a
\* login is going on, /cancel is taken by the login conversation, and
\* /cancel is taken by order_conv before confirm_conv
Login(c) == login_start(c) \/ login_phone(c) \/ login_pass(c) \/ auth_cancel(c)

NextLogin ==
    \/ \E c \in Chats :
          \/ Login(c)
          \/ tasdiq_start(c) \/ on_pick(c)
          \/ kiritish_start(c) \/ on_paytype_chosen(c)
          \/ (auth[c].state = END /\ order_cancel(c))
          \/ (auth[c].state = END /\ order[c].state = END /\ cancel(c))
    \/ kiritish_open_row

\* logging in and out of step with the entry of /tasdiq and of /kiritish,
\* over the rows /kiritish leaves
SpecLogin == InitLogin /\ [][NextLogin]_vars

NextOwner ==
    \/ \E c \in Chats :
          \/ Login(c)
          \/ tasdiq_start(c) \/ on_pick(c)
          \/ (auth[c].state = END /\ cancel(c))
    \/ kiritish_open_row
    \/ mark_done_call

\* operators taking turns in one chat: the record list of one, the login of
\* the other, the pick of a listed record, and the marking of rows as done
SpecOwner == InitLogin /\ [][NextOwner]_vars


\* ---------------------------------------------------------------------------
\* C35: an operator loads and marks DONE only records of their own: a pick
\* either loads a record whose owner is the operator of the session, or
\* loads nothing and ends the flow, and it changes no row; a row changes
\* its status only in a call made for the operator who owns it.
C35_OwnRecordsOnly ==
    [][/\ \A c \in Chats :
            (conv[c] = "CF_PICK" /\ out'[c].handler = "on_pick")
            => /\ confirms' = confirms
               /\ IF conv'[c] = "CF_PHOTO"
                  THEN /\ ud'[c].confirm_id \in 1..Len(confirms)
                       /\ confirms[ud'[c].confirm_id].operator_id = ud[c].operator
                  ELSE conv'[c] = END /\ ud'[c] = ud[c]
       /\ \A i \in 1..Len(confirms) :
            confirms'[i].status # confirms[i].status
            => /\ tx'[1].call = "mark_confirm_done"
               /\ tx'[1].args.operator_id = confirms[i].operator_id
               /\ tx'[1].args.confirm_id = i]_vars

\* the record another operator owns has been picked from an old list
C35_Reached ==
    \E c \in Chats :
        /\ out[c].handler = "on_pick" /\ out[c].input = "missing"
        /\ conv[c] = END
        /\ ud[c].operator # 0
        /\ \E i \in kb[c].cfpick :
              i \in 1..Len(confirms) /\ confirms[i].operator_id # ud[c].operator


\* ---------------------------------------------------------------------------
\* C36: a user without operator session is in no state of /tasdiq or
\* /kiritish but the end; the session changes only in the step of
\* login_pass whose phone and password are those of a stored operator, who
\* becomes the operator of the session; a failed login leaves the session
\* as it was.
C36_SessionOnlyByLogin ==
    [][\A c \in Chats :
         /\ ud'[c].operator = 0 => (conv'[c] = END /\ order'[c].state = END)
         /\ ud'[c].operator # ud[c].operator
            => /\ auth[c].state = "LOG_PASS"
               /\ out'[c].handler = "login_pass" /\ out'[c].input = "ok"
               /\ ud'[c].operator \in DOMAIN Credentials
               /\ Credentials[ud'[c].operator].phone = auth[c].log_phone
               /\ \E text \in LoginTexts :
                     check_operator(auth[c].log_phone, text) = ud'[c].operator
         /\ (auth[c].state = "LOG_PASS" /\ out'[c].handler = "login_pass"
             /\ out'[c].input = "bad")
            => ud'[c] = ud[c]]_vars

\* /tasdiq has been refused after a login that did not succeed
C36_Reached ==
    \E c \in Chats :
        /\ ud[c].operator = 0
        /\ auth[c].state = END /\ auth[c].log_phone # <<>>
        /\ out[c].handler = "tasdiq_start" /\ out[c].reply = <<"err_login">>


(* --------------------- services/moysklad.py: counterparty --------------- *)
_norm_phone_digits(phone) == SelectSeq(phone, LAMBDA ch : ch \in Digits)

_norm_phone_plus(phone) ==
    LET d == _norm_phone_digits(phone) IN
    IF d = <<>> THEN <<>>
    ELSE IF Len(d) = 12 /\ SubSeq(d, 1, 3) = <<"9", "9", "8">> THEN <<"+">> \o d
    ELSE IF Len(d) = 9 THEN <<"+", "9", "9", "8">> \o d
    ELSE <<"+">> \o d

\* sub is a part of s
Infix(sub, s) ==
    \E i \in 0..(Len(s) - Len(sub)) : SubSeq(s, i + 1, i + Len(sub)) = sub

\* the rows of the directory that may come first in the answer to
\* filter=phone~v, for the first v of the variants that finds any
find_counterparty_by_phone(dir, phone) ==
    LET digits == _norm_phone_digits(phone)
        Match(v) == {i \in 1..Len(dir) : Infix(v, dir[i].phone)}
        last9 == SubSeq(digits, Len(digits) - 8, Len(digits))
    IN  IF digits = <<>> THEN {}
        ELSE IF Match(_norm_phone_plus(phone)) # {} THEN Match(_norm_phone_plus(phone))
        ELSE IF Match(digits) # {} THEN Match(digits)
        ELSE IF Len(digits) >= 9 THEN Match(last9)
        ELSE {}

\* the rows that may come first in the answer to search=q
search_counterparties(dir, query) ==
    LET q == Strip(query) IN
    IF q = <<>> THEN {} ELSE {i \in 1..Len(dir) : Infix(q, dir[i].name)}

\* found, cp: the row find_counterparty_by_phone and search_counterparties
\* return, 0 for none; the result is the directory after the call, the row
\* returned, and whether it was created by POST
get_or_create_counterparty(dir, name_in, phone_in, found, cp) ==
    LET name == Strip(name_in)
        phone_raw == Strip(phone_in)
        phone_plus == IF _norm_phone_plus(phone_raw) # <<>> THEN _norm_phone_plus(phone_raw)
                      ELSE phone_raw
        put(i, n, p) == [dir EXCEPT ![i] = [name |-> n, phone |-> p]]
    IN  IF phone_raw # <<>> /\ found # 0
        THEN [dir |-> put(found,
                          IF name # <<>> /\ Strip(dir[found].name) # name
                          THEN name ELSE dir[found].name,
                          IF phone_plus # <<>> /\ Strip(dir[found].phone) # phone_plus
                          THEN phone_plus ELSE dir[found].phone),
              ret |-> found, created |-> FALSE]
        ELSE IF name # <<>> /\ cp # 0
        THEN [dir |-> put(cp, dir[cp].name,
                          IF phone_raw # <<>> /\ Strip(dir[cp].phone) # phone_plus
                          THEN phone_plus ELSE dir[cp].phone),
              ret |-> cp, created |-> FALSE]
        ELSE [dir |-> Append(dir, [name |-> IF name # <<>> THEN name
                                            ELSE IF phone_raw # <<>> THEN phone_raw
                                            ELSE <<"N", "o", "N", "a", "m", "e">>,
                                   phone |-> IF phone_raw # <<>> THEN phone_plus ELSE <<>>]),
              ret |-> Len(dir) + 1, created |-> TRUE]

\* the names and phones the handlers pass: a name is never empty, a phone
\* is none, a normalized phone, or the phone a counterparty has in the
\* directory, in whatever form it was typed there
DirNames == {<<"a">>, <<"b">>}
DirPhones ==
    {<<>>, <<"-">>, <<"1", "2">>,
     <<"9", "0", "1", "2", "3", "4", "5", "6", "7">>,
     <<"+", "9", "9", "8", "9", "0", "1", "2", "3", "4", "5", "6", "7">>}
MaxDirectory == 2
Directories ==
    {<<>>, <<[name |-> <<"a">>, phone |-> <<"9", "0", " ", "1", "2", "3", "4", "5", "6", "7">>]>>}

OneOf(rows) == IF rows = {} THEN {0} ELSE rows

\* one call of get_or_create_counterparty on the directory the calls before
\* it left; made: the rows created by the calls
counterparty_call ==
    /\ pure.fn = "get_or_create_counterparty"
    /\ UNCHANGED <<conv, ud, out, kb, msg_id, confirms, files, env, tx, order, auth>>
    /\ \E name \in DirNames, phone \in DirPhones :
        \E found \in OneOf(find_counterparty_by_phone(pure.res.dir, Strip(phone))),
           cp \in OneOf(search_counterparties(pure.res.dir, name)) :
            LET r == get_or_create_counterparty(pure.res.dir, name, phone, found, cp) IN
            /\ Len(r.dir) <= MaxDirectory
            /\ pure' = [fn |-> pure.fn, arg |-> [name |-> name, phone |-> phone],
                        done |-> TRUE,
                        res |-> r @@ [made |-> pure.res.made
                                                \cup (IF r.created THEN {r.ret} ELSE {})]]

InitDirectory ==
    /\ Quiet
    /\ \E dir \in Directories :
          pure = [fn |-> "get_or_create_counterparty",
                  arg |-> [name |-> <<>>, phone |-> <<>>], done |-> FALSE,
                  res |-> [dir |-> dir, ret |-> 0, created |-> FALSE, made |-> {}]]

\* calls of get_or_create_counterparty one after the other
SpecDirectory == InitDirectory /\ [][counterparty_call]_vars

\* C37: a counterparty found by phone is returned and none is created;
\* otherwise one found by name is returned; one is created only when both
\* lookups find nothing, and then no counterparty created by an earlier
\* call has the phone of the new one.
C37_ResolveOrCreate ==
    [][pure'.done =>
         LET d == pure.res.dir
             a == pure'.arg
             r == pure'.res
             F == find_counterparty_by_phone(d, Strip(a.phone))
             S == search_counterparties(d, a.name)
         IN  /\ F # {} => (~r.created /\ r.ret \in F /\ Len(r.dir) = Len(d))
             /\ (F = {} /\ S # {}) => (~r.created /\ r.ret \in S /\ Len(r.dir) = Len(d))
             /\ r.created => (F = {} /\ S = {} /\ Len(r.dir) = Len(d) + 1)
             /\ (r.created /\ Strip(a.phone) # <<>>)
                => \A i \in pure.res.made : d[i].phone # r.dir[r.ret].phone]_vars


\* ---------------------------------------------------------------------------
\* C38: every row of the confirms table has its brand upper-cased and its
\* phone either empty or in the form the phone normalizer returns.
C38_KeyFieldsNormalized ==
    \A i \in 1..Len(confirms) :
        /\ confirms[i].brand = Upper(confirms[i].brand)
        /\ \/ confirms[i].phone_plus = <<>>
           \/ /\ confirms[i].phone_plus[1] = "+"
              /\ _normalize_phone_uz(confirms[i].phone_plus) = confirms[i].phone_plus


\* ---------------------------------------------------------------------------
\* the fields of the working draft an edit key stands for
EditFields(key) ==
    CASE key = "brand" -> {"brand"}
      [] key = "item" -> {"item_type"}
      [] key = "size" -> {"size"}
      [] key = "bg" -> {"bg_color"}
      [] key = "text" -> {"text_color"}
      [] key = "qm" -> {"qm_note"}
      [] key = "qty" -> {"qty", "qty_unit_lat", "qty_unit_ru"}
      [] OTHER -> {}

\* C39: an edit of brand, item type, size, background, text color, note or
\* quantity that is taken changes no field of the draft but the one edited
\* (quantity with its units), leaves the batch, the record id and the rest
\* of the session as they were and returns to Review; an edit that is
\* rejected changes nothing and stays in the edit state.
C39_EditChangesOneField ==
    [][\A c \in Chats :
         (/\ conv[c] = "CF_EDIT_VALUE"
          /\ out'[c].handler = "on_edit_value"
          /\ EditFields(ud[c].edit_key) # {})
         => IF conv'[c] = "CF_REVIEW"
            THEN /\ \A f \in DOMAIN ud[c].confirm_data \ EditFields(ud[c].edit_key) :
                       ud'[c].confirm_data[f] = ud[c].confirm_data[f]
                 /\ \A k \in DOMAIN ud[c] \ {"confirm_data", "edit_key", "keys"} :
                       ud'[c][k] = ud[c][k]
                 /\ ud'[c].keys = ud[c].keys \ {"edit_key"}
            ELSE conv'[c] = "CF_EDIT_VALUE" /\ ud'[c] = ud[c]]_vars

\* a quantity has been edited from Review while the batch holds an item
C39_Reached ==
    \E c \in Chats :
        /\ out[c].handler = "on_edit_value" /\ out[c].input = "qty"
        /\ conv[c] = "CF_REVIEW"
        /\ ud[c].confirm_batch # <<>>


\* ---------------------------------------------------------------------------
\* the folder lists get_product_folders may return, and the filtered lists
\* and page numbers the picker is asked for
MaxFolders == 3
FolderSeqs == UNION {[1..n -> Folders] : n \in 0..MaxFolders}
MaxGroups == 25
PageNumbers == (0 - 1)..4
PageInputs ==
    {[groups |-> [i \in 1..n |-> i], page |-> p] : n \in 0..MaxGroups, p \in PageNumbers}

InitGroups ==
    /\ Quiet
    /\ pure \in ToCall("_filter_groups", FolderSeqs)
                \cup ToCall("_build_groups_page_markup", PageInputs)
SpecGroups == InitGroups /\ [][validator_call]_vars

\* runs of spaces made one space
RECURSIVE Squeeze(_)
Squeeze(s) ==
    IF Len(s) < 2 THEN s
    ELSE IF s[1] = " " /\ s[2] = " " THEN Squeeze(Tail(s))
    ELSE <<s[1]>> \o Squeeze(Tail(s))

\* the folder's name is a name of the allow-list up to case and blanks
InAllowList(g) ==
    \E a \in ALLOWED_GROUPS :
        Squeeze(Lower(Strip(FolderName(g)))) = Squeeze(Lower(Strip(a)))

\* C40: the picker shows the folders of the allow-list (up to case and
\* blanks) and no other, in the order they came; the page shown is the
\* page asked for, clamped to 0..last page; it holds the groups from
\* 10 * page on, ten of them or those that are left, so the pages partition
\* the list in order; Prev is there only when page > 0 and Next only when
\* page < last page.
C40_GroupPicker ==
    pure.done =>
        /\ pure.fn = "_filter_groups"
           => LET idx == {i \in 1..Len(pure.arg) : InAllowList(pure.arg[i])} IN
              /\ Len(pure.res) = Cardinality(idx)
              /\ \A k \in 1..Len(pure.res) :
                    \E i \in idx : /\ pure.res[k] = pure.arg[i]
                                   /\ Cardinality({j \in idx : j <= i}) = k
        /\ pure.fn = "_build_groups_page_markup"
           => LET n == Len(pure.arg.groups)
                  last == IF n = 0 THEN 0 ELSE (n - 1) \div 10
                  r == pure.res
                  m == IF n - 10 * r.page < 10 THEN n - 10 * r.page ELSE 10
              IN  /\ r.page \in 0..last
                  /\ pure.arg.page \in 0..last => r.page = pure.arg.page
                  /\ pure.arg.page < 0 => r.page = 0
                  /\ pure.arg.page > last => r.page = last
                  /\ r.chunk = [k \in 1..m |-> pure.arg.groups[10 * r.page + k]]
                  /\ r.prev <=> r.page > 0
                  /\ r.next <=> r.page < last

\* the last page of 25 groups was asked for by a number beyond it, and a
\* list with an allowed and a hidden folder was filtered
C40_Reached ==
    /\ pure.done
    /\ \/ /\ pure.fn = "_build_groups_page_markup"
          /\ Len(pure.arg.groups) = 25 /\ pure.arg.page = 4
          /\ Len(pure.res.chunk) = 5
       \/ /\ pure.fn = "_filter_groups"
          /\ pure.arg = <<2, 1, 2>>

\* C40 in the handler: pressing the page indicator leaves state and draft
\* as they are.
C40_IndicatorIsNoop ==
    [][\A c \in Chats :
         (/\ conv[c] = "CF_GROUP"
          /\ out'[c].handler = "on_groups_page" /\ out'[c].input = "noop")
         => (conv'[c] = "CF_GROUP" /\ ud'[c] = ud[c])]_vars


====
